---- MODULE Spec2Model ----
(***************************************************************************)
(* Cross-border journey search of trainy-web: provider selection, the      *)
(* provider loop of searchJourneys with the SBB platform enrichment, the   *)
(* journey matcher and merge engine (mergeJourneys / mergeIntoExisting),   *)
(* the conversion to storage input, the Supabase journey store, the        *)
(* station search (searchStations) that folds provider answers into the    *)
(* station registry, the delay computation of the provider adapters, and   *)
(* the realtime refresh of a stored journey.                               *)
(*                                                                         *)
(* Conventions of the model                                                *)
(*  - a JavaScript string that the code inspects (station names, station   *)
(*    codes, registry ids, train type and number) is a sequence of         *)
(*    one-character strings, so that toLowerCase, trim, includes and the   *)
(*    whitespace regexes are computed and not assumed;                     *)
(*  - an ISO timestamp is the number of minutes since an epoch, NoTime is  *)
(*    `undefined`, BadTime is a string that Date cannot parse (getTime is  *)
(*    NaN, toISOString throws); the raw stops of the adapters carry        *)
(*    their timestamps in milliseconds;                                    *)
(*  - Undef is `undefined` for the optional string fields;                 *)
(*  - objects are values: a stop shared by reference between a journey's   *)
(*    arrival and its stops list is two equal records here;                *)
(*  - created_at / updated_at and the log output are left out;             *)
(*  - the wall clock is read only where the code calls new Date() for a    *)
(*    value it stores, and never runs backwards.                           *)
(*                                                                         *)
(* Six specifications share the state:                                     *)
(*  - SpecMerge: one mergeJourneys pass, one fold per step, over every     *)
(*    candidate list up to MaxCands;                                       *)
(*  - Spec: a client calling searchJourneys up to MaxRuns times in         *)
(*    sequence for one connection, one step per await of the provider      *)
(*    loop, providers and database failing or not per search; `asked`      *)
(*    records the providers whose searchJourneys the loop has called;      *)
(*  - SpecStations: up to MaxCalls overlapping searchStations calls on the *)
(*    shared registry objects, one step to read the registry and issue     *)
(*    the provider queries, one to fold the settled answers;               *)
(*  - SpecAdapters: one raw stop of a provider mapped to its delays;       *)
(*  - SpecStore: two searches storing their merged journeys at the same    *)
(*    time, one step per await of every storeJourney call, up to           *)
(*    MaxOutages requests failing;                                         *)
(*  - SpecRefresh: up to MaxOps realtime refreshes and repeated searches   *)
(*    of one stored journey, one step per provider lookup.                 *)
(***************************************************************************)
EXTENDS Integers, Sequences, FiniteSets, TLC

\* ------------------------------------------------------------------------
\* Bounds of the model
\* ------------------------------------------------------------------------
\* Longest candidate list handed to one mergeJourneys pass in SpecMerge.
MaxCands == 3

\* How many times the client searches the connection in Spec.
MaxRuns == 2

\* How many searchStations calls run, one overlapping the other, in
\* SpecStations.
MaxCalls == 2

\* How many requests to Supabase fail while the searches of SpecStore store
\* their journeys.
MaxOutages == 1

\* How many operations (refreshes and repeated searches) one stored journey
\* goes through in SpecRefresh.
MaxOps == 3

\* ------------------------------------------------------------------------
\* JavaScript values
\* ------------------------------------------------------------------------
Undef == "undefined"
NoTime == 0 - 1
NoDelay == 0 - 9999

\* A timestamp string that Date cannot parse: new Date(s) is an Invalid Date,
\* getTime() is NaN and toISOString() throws a RangeError.
BadTime == 0 - 2

\* new Date(t).getTime() is a number
ValidTime(t) == t >= 0

\* JS truthiness of an optional string: undefined and "" are falsy.
Truthy(s) == s # Undef /\ s # ""

\* a ?? b
Coalesce(a, b) == IF a = Undef THEN b ELSE a

IsSpace(c) == c = " "

LowerChar(c) ==
  CASE c = "A" -> "a" [] c = "B" -> "b" [] c = "C" -> "c" [] c = "E" -> "e"
    [] c = "F" -> "f" [] c = "H" -> "h" [] c = "I" -> "i" [] c = "K" -> "k"
    [] c = "M" -> "m" [] c = "S" -> "s" [] c = "U" -> "u" [] c = "Z" -> "z"
    [] OTHER -> c

\* String.prototype.toLowerCase
Lower(s) == [i \in 1..Len(s) |-> LowerChar(s[i])]

RECURSIVE TrimLeft(_)
TrimLeft(s) == IF s # <<>> /\ IsSpace(Head(s)) THEN TrimLeft(Tail(s)) ELSE s

RECURSIVE TrimRight(_)
TrimRight(s) ==
  IF s # <<>> /\ IsSpace(s[Len(s)]) THEN TrimRight(SubSeq(s, 1, Len(s) - 1)) ELSE s

\* String.prototype.trim
Trim(s) == TrimRight(TrimLeft(s))

\* String.prototype.includes
Includes(s, sub) ==
  \E i \in 1..(Len(s) + 1) :
    /\ i + Len(sub) - 1 <= Len(s)
    /\ SubSeq(s, i, i + Len(sub) - 1) = sub

\* s.replace(/\s/g, "") and s.replace(/\s+/g, "")
StripWs(s) == SelectSeq(s, LAMBDA c : ~IsSpace(c))

\* s.replace(/\s+/g, "-"): every run of whitespace becomes one dash
RECURSIVE Dashed(_)
Dashed(s) ==
  IF s = <<>> THEN <<>>
  ELSE IF IsSpace(Head(s))
       THEN <<"-">> \o Dashed(TrimLeft(s))
       ELSE <<Head(s)>> \o Dashed(Tail(s))

\* ------------------------------------------------------------------------
\* Providers (providers/index.ts)
\* ------------------------------------------------------------------------
ProviderID == {"NS", "DB", "SNCF", "OBB", "SBB"}

\* PROVIDERS: the registry holds an implementation for NS and DB only.
PROVIDERS ==
  [id \in ProviderID |-> IF id \in {"NS", "DB"} THEN id ELSE Undef]

COUNTRY_PROVIDERS ==
  [c \in {"NL", "DE", "FR", "AT", "CH", "BE"} |->
     CASE c = "NL" -> "NS" [] c = "DE" -> "DB" [] c = "FR" -> "SNCF"
       [] c = "AT" -> "OBB" [] c = "CH" -> "SBB" [] c = "BE" -> "NS"]

\* getProvider: the provider instance (named by its id) or Undef for null
getProvider(id) == PROVIDERS[id]

\* getProviderForCountry: the provider instance or Undef for null
getProviderForCountry(country) == PROVIDERS[COUNTRY_PROVIDERS[country]]

\* provider.country of the two implemented providers
ProviderCountry(p) == IF p = "NS" THEN "NL" ELSE "DE"

\* provider.toProviderStationId(station): station.providerIds[p] ?? null
toProviderStationId(p, station) == station.providerIds[p]

\* ------------------------------------------------------------------------
\* Station registry (data/stationRegistry.ts), the stations the model uses
\* ------------------------------------------------------------------------
NameAmsterdam == <<"A", " ", "C">>       \* "Amsterdam Centraal"
NameFrankfurt == <<"F", " ", "M", " ", "H">>  \* "Frankfurt (Main) Hbf"
NameFrankfurtTight == <<"F", "M", "H">>  \* "Frankfurt(Main)Hbf"
NameFrankfurtShort == <<"F">>            \* "Frankfurt"
NameZurich == <<"Z", " ", "H">>          \* "Zuerich HB"
NameBasel == <<"B", " ", "S">>           \* "Basel SBB"
NameKoeln == <<"K", " ", "H">>           \* "Koeln Hbf"

StationAmsterdam ==
  [id |-> <<"a", "-", "c">>, displayName |-> NameAmsterdam, country |-> "NL",
   providerIds |-> [p \in ProviderID |->
      CASE p = "NS" -> "ASD" [] p = "DB" -> "8400058" [] p = "SBB" -> "8400058"
        [] OTHER -> Undef]]

StationFrankfurt ==
  [id |-> <<"f", "-", "h">>, displayName |-> NameFrankfurt, country |-> "DE",
   providerIds |-> [p \in ProviderID |->
      CASE p = "NS" -> "Frankfurt (Main) Hbf" [] p = "DB" -> "8000105"
        [] p = "SBB" -> "8011068" [] OTHER -> Undef]]

StationZurich ==
  [id |-> <<"z", "-", "h">>, displayName |-> NameZurich, country |-> "CH",
   providerIds |-> [p \in ProviderID |->
      CASE p = "NS" -> "ZUE" [] p = "SBB" -> "8503000" [] p = "DB" -> "8503000"
        [] OTHER -> Undef]]

StationBasel ==
  [id |-> <<"b", "-", "s">>, displayName |-> NameBasel, country |-> "CH",
   providerIds |-> [p \in ProviderID |->
      CASE p = "NS" -> "BASELS" [] p = "SBB" -> "8500010" [] p = "DB" -> "8500010"
        [] OTHER -> Undef]]

StationKoeln ==
  [id |-> <<"k", "-", "h">>, displayName |-> NameKoeln, country |-> "DE",
   providerIds |-> [p \in ProviderID |->
      CASE p = "NS" -> "Koeln Hbf" [] p = "DB" -> "8000207"
        [] p = "SBB" -> "8015458" [] OTHER -> Undef]]

NameBern == <<"B", "e", "r", "n">>       \* "Bern"

\* A registry station that NS has no id for
StationBern ==
  [id |-> <<"b", "e", "r", "n", "-", "h", "b">>, displayName |-> NameBern,
   country |-> "CH",
   providerIds |-> [p \in ProviderID |->
      CASE p = "SBB" -> "8507000" [] p = "DB" -> "8507000" [] OTHER -> Undef]]

\* Object.values(STATION_REGISTRY), in the order of the object literal
STATION_REGISTRY ==
  <<StationAmsterdam, StationFrankfurt, StationKoeln, StationZurich, StationBasel,
    StationBern>>

\* findStationsByName: case-insensitive partial match, registry order
findStationsByName(query) ==
  LET normalized == Trim(Lower(query))
  IN IF normalized = <<>> THEN <<>>
     ELSE SelectSeq(STATION_REGISTRY,
                    LAMBDA st : Includes(Lower(st.displayName), normalized))

\* ------------------------------------------------------------------------
\* Journeys as the provider adapters return them (types/train.ts)
\* ------------------------------------------------------------------------
JourneyStatus == {"scheduled", "delayed", "cancelled", "departed", "arrived"}

TypeICE == <<"I", "C", "E">>
TypeIC == <<"I", "C">>
Number1 == <<"1">>
Number2 == <<"2">>

\* JourneyStop; `source` is the key the enrichment adds, absent (Undef) on
\* every stop an adapter maps.
Stop(name, code, country, arr, dep, planned, actual) ==
  [station |-> [code |-> code, name |-> name, country |-> country],
   scheduledArrival |-> arr, scheduledDeparture |-> dep,
   platform |-> Coalesce(actual, planned),
   plannedPlatform |-> planned, actualPlatform |-> actual,
   departureDelay |-> NoDelay, arrivalDelay |-> NoDelay,
   cancelled |-> Undef, source |-> Undef]

\* Journey
Journey(id, type, number, dep, arr, stops, status) ==
  [id |-> id, trainNumber |-> number, trainType |-> type, operator |-> "op",
   departure |-> dep, arrival |-> arr, stops |-> stops, duration |-> 0,
   status |-> status]

\* ------------------------------------------------------------------------
\* Journey merging (internationalApi.ts)
\* ------------------------------------------------------------------------
\* Math.round(m / 5) for a whole number of minutes m >= 0
RoundFifth(m) == (2 * m + 5) \div 10

\* Mutant of generateMergeKey: the key also carries the destination name as
\* the provider writes it.
generateMergeKeyWithName(journey) ==
  LET trainId == StripWs(journey.trainType \o journey.trainNumber)
      depTime == journey.departure.scheduledDeparture
  IN IF depTime = NoTime THEN <<trainId, NoTime, <<>>>>
     ELSE <<trainId, (depTime - (depTime % 60)) + RoundFifth(depTime % 60) * 5,
            Lower(journey.arrival.station.name)>>

\* generateMergeKey: train id without whitespace, departure rounded to the
\* nearest 5 minutes (setMinutes carries 60 into the hour); the train id alone
\* when the departure time is missing.
generateMergeKey(journey) ==
  LET trainId == StripWs(journey.trainType \o journey.trainNumber)
      depTime == journey.departure.scheduledDeparture
  IN IF depTime = NoTime THEN <<trainId, NoTime>>
     ELSE <<trainId, (depTime - (depTime % 60)) + RoundFifth(depTime % 60) * 5>>

\* generateMergeKey throws: date.toISOString() on an Invalid Date
generateMergeKeyThrows(journey) ==
  journey.departure.scheduledDeparture = BadTime

Abs(x) == IF x < 0 THEN 0 - x ELSE x

\* The predicate of the secondary (arrival-time) lookup of mergeJourneys:
\* `candidate` is an existing merged journey, `journey` the one being folded.
ArrivalMatch(candidate, journey, toStation) ==
  LET destinationName == Trim(Lower(toStation.displayName))
      destinationId == Trim(Lower(toStation.id))
      candidateDestName == Trim(Lower(candidate.arrival.station.name))
  IN /\ candidate.trainNumber = journey.trainNumber
     /\ candidate.arrival.scheduledArrival # NoTime
     \* `diffMinutes > 20` rejects; a NaN difference does not
     /\ ~(/\ ValidTime(candidate.arrival.scheduledArrival)
          /\ ValidTime(journey.arrival.scheduledArrival)
          /\ Abs(candidate.arrival.scheduledArrival
                 - journey.arrival.scheduledArrival) > 20)
     /\ \/ candidateDestName = destinationName
        \/ Includes(candidateDestName, destinationName)
        \/ Lower(candidate.arrival.station.code) = destinationId

\* Array.prototype.find: `hits` tells for each element whether the predicate
\* accepts it; the index of the first accepted element, 0 when there is none
FindIndex(hits) ==
  IF \E i \in 1..Len(hits) : hits[i]
  THEN CHOOSE i \in 1..Len(hits) : hits[i] /\ \A k \in 1..(i - 1) : ~hits[k]
  ELSE 0

\* { ...existing, ...incoming } of two stops: every key an adapter maps is
\* taken from incoming; `source` only when incoming carries it.
SpreadStop(existing, incoming) ==
  [incoming EXCEPT !.source = Coalesce(incoming.source, existing.source)]

\* The else-branch loop of "Use more complete stops list": platform fields
\* of the first existing stop with the same lower-cased name, when it has no
\* platform and the new stop has one.
RECURSIVE MergeStopPlatforms(_, _)
MergeStopPlatforms(stops, newStops) ==
  IF newStops = <<>> THEN stops
  ELSE LET newStop == Head(newStops)
           k == FindIndex([i \in 1..Len(stops) |->
                  Lower(stops[i].station.name) = Lower(newStop.station.name)])
           next == IF k # 0 /\ ~Truthy(stops[k].platform) /\ Truthy(newStop.platform)
                   THEN [stops EXCEPT ![k].platform = newStop.platform,
                                      ![k].plannedPlatform = newStop.plannedPlatform,
                                      ![k].actualPlatform = newStop.actualPlatform]
                   ELSE stops
       IN MergeStopPlatforms(next, Tail(newStops))

\* Mutant of MergeStatus: the status of the latest candidate always wins.
MergeStatusLatest(existingStatus, newStatus) == newStatus

\* "Use latest realtime data"
MergeStatus(existingStatus, newStatus) ==
  IF newStatus # "scheduled" /\ existingStatus = "scheduled"
  THEN newStatus ELSE existingStatus

\* Mutant of MergeDeparture: the departure of the first candidate is kept.
MergeDepartureFirstWins(existing, newJourney, newSource, fromStation) ==
  existing.departure

\* "Update departure if new source is authoritative for origin"
MergeDeparture(existing, newJourney, newSource, fromStation) ==
  IF /\ getProviderForCountry(fromStation.country) = newSource
     /\ Truthy(newJourney.departure.platform)
     /\ ~Truthy(existing.departure.platform)
  THEN SpreadStop(existing.departure, newJourney.departure)
  ELSE existing.departure

\* Mutant of MergeArrival: only the platform fields of the new arrival are
\* copied into the existing one.
MergeArrivalPlatformOnly(existing, newJourney, newSource, toStation) ==
  IF /\ getProviderForCountry(toStation.country) = newSource
     /\ Truthy(newJourney.arrival.platform)
     /\ ~Truthy(existing.arrival.platform)
  THEN [existing.arrival EXCEPT
          !.platform = newJourney.arrival.platform,
          !.plannedPlatform = newJourney.arrival.plannedPlatform,
          !.actualPlatform = newJourney.arrival.actualPlatform]
  ELSE existing.arrival

\* "Update arrival if new source is authoritative for destination"
MergeArrival(existing, newJourney, newSource, toStation) ==
  IF /\ getProviderForCountry(toStation.country) = newSource
     /\ Truthy(newJourney.arrival.platform)
     /\ ~Truthy(existing.arrival.platform)
  THEN SpreadStop(existing.arrival, newJourney.arrival)
  ELSE existing.arrival

\* Mutant of TrackSource: the provider is appended on every merge.
TrackSourceAlways(sources, newSource) == Append(sources, newSource)

\* "Track source": the provider is appended unless sources includes it
TrackSource(sources, newSource) ==
  IF \E i \in 1..Len(sources) : sources[i] = newSource
  THEN sources ELSE Append(sources, newSource)

\* Mutant of mergeIntoExisting: a stop list of the same length replaces the
\* current one as well.
mergeIntoExistingOnEqual(existing, newJourney, newSource, fromStation, toStation) ==
  [existing EXCEPT
     !.sources = TrackSource(@, newSource),
     !.nsRawId = IF newSource = "NS" THEN newJourney.id ELSE @,
     !.dbRawId = IF newSource = "DB" THEN newJourney.id ELSE @,
     !.sbbRawId = IF newSource = "SBB" THEN newJourney.id ELSE @,
     !.departure = MergeDeparture(existing, newJourney, newSource, fromStation),
     !.arrival = MergeArrival(existing, newJourney, newSource, toStation),
     !.stops = IF Len(newJourney.stops) >= Len(@)
               THEN newJourney.stops
               ELSE MergeStopPlatforms(@, newJourney.stops),
     !.status = MergeStatus(@, newJourney.status)]

\* mergeIntoExisting
mergeIntoExisting(existing, newJourney, newSource, fromStation, toStation) ==
  [existing EXCEPT
     !.sources = TrackSource(@, newSource),
     !.nsRawId = IF newSource = "NS" THEN newJourney.id ELSE @,
     !.dbRawId = IF newSource = "DB" THEN newJourney.id ELSE @,
     !.sbbRawId = IF newSource = "SBB" THEN newJourney.id ELSE @,
     !.departure = MergeDeparture(existing, newJourney, newSource, fromStation),
     !.arrival = MergeArrival(existing, newJourney, newSource, toStation),
     !.stops = IF Len(newJourney.stops) > Len(@)
               THEN newJourney.stops
               ELSE MergeStopPlatforms(@, newJourney.stops),
     !.status = MergeStatus(@, newJourney.status)]

\* The MergedJourneyData a candidate that matches nothing starts
NewMerged(source, journey) ==
  [trainNumber |-> journey.trainNumber, trainType |-> journey.trainType,
   operator |-> journey.operator, departure |-> journey.departure,
   arrival |-> journey.arrival, stops |-> journey.stops,
   duration |-> journey.duration, status |-> journey.status,
   sources |-> <<source>>,
   nsRawId |-> IF source = "NS" THEN journey.id ELSE Undef,
   dbRawId |-> IF source = "DB" THEN journey.id ELSE Undef,
   sbbRawId |-> IF source = "SBB" THEN journey.id ELSE Undef]

\* The match set a candidate is folded into: the entry under its merge key,
\* else the first entry the arrival lookup accepts, else 0 (none).
MatchIndex(map, journey, toStation) ==
  LET key == generateMergeKey(journey)
      byPrimary == FindIndex([i \in 1..Len(map) |-> map[i].key = key])
  IN IF byPrimary # 0 THEN byPrimary
     ELSE IF journey.trainNumber # <<>> /\ journey.arrival.scheduledArrival # NoTime
          THEN FindIndex([i \in 1..Len(map) |->
                            ArrivalMatch(map[i].merged, journey, toStation)])
          ELSE 0

\* Mutant of MergeStep: a candidate merged into an existing set is also
\* registered under its own key.
MergeStepAliasing(map, pos, tagged, fromStation, toStation) ==
  LET k == MatchIndex(map, tagged.journey, toStation)
      merged == [map EXCEPT
                   ![k].merged = mergeIntoExisting(@, tagged.journey, tagged.source,
                                                   fromStation, toStation),
                   ![k].members = @ \cup {pos}]
  IN IF k # 0
     THEN IF map[k].key = generateMergeKey(tagged.journey) THEN merged
          ELSE Append(merged, [merged[k] EXCEPT
                                 !.key = generateMergeKey(tagged.journey)])
     ELSE Append(map, [key |-> generateMergeKey(tagged.journey),
                       merged |-> NewMerged(tagged.source, tagged.journey),
                       members |-> {pos}])

\* One iteration of the loop of mergeJourneys. `map` is the Map byKey in
\* insertion order; `members` records which candidates (by position in the
\* input) went into each entry, for stating the grouping.
MergeStep(map, pos, tagged, fromStation, toStation) ==
  LET k == MatchIndex(map, tagged.journey, toStation)
  IN IF k # 0
     THEN [map EXCEPT
             ![k].merged = mergeIntoExisting(@, tagged.journey, tagged.source,
                                             fromStation, toStation),
             ![k].members = @ \cup {pos}]
     ELSE Append(map, [key |-> generateMergeKey(tagged.journey),
                       merged |-> NewMerged(tagged.source, tagged.journey),
                       members |-> {pos}])

\* The Map after the first n candidates have been folded
RECURSIVE MergeFold(_, _, _, _)
MergeFold(journeys, n, fromStation, toStation) ==
  IF n = 0 THEN <<>>
  ELSE MergeStep(MergeFold(journeys, n - 1, fromStation, toStation),
                 n, journeys[n], fromStation, toStation)

\* mergeJourneys: Array.from(byKey.values())
mergeJourneys(journeys, fromStation, toStation) ==
  LET map == MergeFold(journeys, Len(journeys), fromStation, toStation)
  IN [i \in 1..Len(map) |-> map[i].merged]

\* ------------------------------------------------------------------------
\* Provider data the model draws from: journeys Amsterdam -> Frankfurt and
\* Amsterdam -> Zuerich as the NS and DB adapters map them
\* ------------------------------------------------------------------------
CodeASD == <<"A", "S", "D">>
CodeFrankfurt == <<"F", "-", "H">>   \* a code equal to the registry id but for case

AmsterdamDep(dep, planned) ==
  Stop(NameAmsterdam, CodeASD, "NL", NoTime, dep, planned, Undef)

FrankfurtArr(name, code, arr, planned) ==
  Stop(name, code, "DE", arr, NoTime, planned, Undef)

KoelnStop == Stop(NameKoeln, <<>>, "DE", 720, 722, "3", Undef)

\* mapStop({}) of the NS adapter: a trip without origin or destination
EmptyStop == Stop(<<>>, <<>>, "", NoTime, NoTime, Undef, Undef)

\* NS: ICE 1, 10:00 from platform 5, no arrival platform, scheduled
NsIce1 ==
  Journey("ns-1", TypeICE, Number1,
          AmsterdamDep(600, "5"), FrankfurtArr(NameFrankfurt, <<>>, 840, Undef),
          <<AmsterdamDep(600, "5"), FrankfurtArr(NameFrankfurt, <<>>, 840, Undef)>>,
          "scheduled")

\* DB: the same train, no departure platform, arrival 14:02 at platform 7,
\* destination written without spaces, one more stop, delayed
DbIce1 ==
  Journey("db-1", TypeICE, Number1,
          AmsterdamDep(600, Undef), FrankfurtArr(NameFrankfurtTight, <<>>, 842, "7"),
          <<AmsterdamDep(600, Undef), KoelnStop,
            FrankfurtArr(NameFrankfurtTight, <<>>, 842, "7")>>,
          "delayed")

\* DB: train number 1 under another train type, 10:03, arrival 14:15 at a
\* destination named "Frankfurt"
DbIc1 ==
  Journey("db-2", TypeIC, Number1,
          AmsterdamDep(603, Undef), FrankfurtArr(NameFrankfurtShort, <<>>, 855, Undef),
          <<AmsterdamDep(603, Undef), FrankfurtArr(NameFrankfurtShort, <<>>, 855, Undef)>>,
          "scheduled")

\* NS: a trip of train 1 that carries neither origin nor destination
NsBare ==
  Journey("ns-2", TypeICE, Number1, EmptyStop, EmptyStop, <<>>, "scheduled")

\* NS: another train, cancelled
NsIce2 ==
  Journey("ns-3", TypeICE, Number2,
          AmsterdamDep(600, "5"), FrankfurtArr(NameFrankfurt, <<>>, 840, Undef),
          <<AmsterdamDep(600, "5"), FrankfurtArr(NameFrankfurt, <<>>, 840, Undef)>>,
          "cancelled")

\* NS: a trip of ICE 1 whose planned departure time is not a parseable
\* timestamp (mapStop hands the API's string on as it is)
NsGarbled ==
  Journey("ns-7", TypeICE, Number1,
          AmsterdamDep(BadTime, "5"), FrankfurtArr(NameFrankfurt, <<>>, 840, Undef),
          <<AmsterdamDep(BadTime, "5"), FrankfurtArr(NameFrankfurt, <<>>, 840, Undef)>>,
          "scheduled")

\* DB: train 1 again, same departure, arriving half an hour later
DbIce1Late ==
  Journey("db-3", TypeICE, Number1,
          AmsterdamDep(600, Undef), FrankfurtArr(NameFrankfurt, CodeFrankfurt, 870, Undef),
          <<AmsterdamDep(600, Undef),
            FrankfurtArr(NameFrankfurt, CodeFrankfurt, 870, Undef)>>,
          "scheduled")

\* DB: ICE 1 with the departure three minutes later than NS has it, the
\* destination named "Frankfurt"
DbIce1Shifted ==
  Journey("db-4", TypeICE, Number1,
          AmsterdamDep(603, Undef), FrankfurtArr(NameFrankfurtShort, <<>>, 842, "7"),
          <<AmsterdamDep(603, Undef), FrankfurtArr(NameFrankfurtShort, <<>>, 842, "7")>>,
          "scheduled")

\* DB: IC 1 leaving at 10:05 and arriving at 14:40
DbIc1Late ==
  Journey("db-5", TypeIC, Number1,
          AmsterdamDep(605, Undef), FrankfurtArr(NameFrankfurtShort, <<>>, 880, Undef),
          <<AmsterdamDep(605, Undef), FrankfurtArr(NameFrankfurtShort, <<>>, 880, Undef)>>,
          "scheduled")

\* ------------------------------------------------------------------------
\* Provider data for a search Amsterdam -> Zuerich: NS journeys and what
\* sbbApi answers for Basel -> Zuerich
\* ------------------------------------------------------------------------
NameOlten == <<"O">>                     \* "Olten", not in the registry
CodeZurich == <<"8", "5">>               \* the SBB station id of Zuerich HB

BaselStop == Stop(NameBasel, <<>>, "CH", 840, 845, "4", Undef)
OltenStop == Stop(NameOlten, <<>>, "CH", 870, 872, Undef, Undef)

ZurichArr(arr, planned) == Stop(NameZurich, <<>>, "CH", arr, NoTime, planned, Undef)

\* NS: ICE 1 via Basel, arrival 15:00 in Zuerich without platform
NsZurich1 ==
  Journey("ns-4", TypeICE, Number1,
          AmsterdamDep(600, "5"), ZurichArr(900, Undef),
          <<AmsterdamDep(600, "5"), BaselStop, ZurichArr(900, Undef)>>,
          "scheduled")

\* NS: the same train, its first Swiss stop a station outside the registry
NsZurichOlten ==
  Journey("ns-5", TypeICE, Number1,
          AmsterdamDep(600, "5"), ZurichArr(900, Undef),
          <<AmsterdamDep(600, "5"), OltenStop, ZurichArr(900, Undef)>>,
          "scheduled")

\* NS: a later train via Basel
NsZurich2 ==
  Journey("ns-6", TypeICE, Number2,
          AmsterdamDep(720, "5"), ZurichArr(1020, Undef),
          <<AmsterdamDep(720, "5"), BaselStop, ZurichArr(1020, Undef)>>,
          "scheduled")

\* NS: the train half an hour later via Basel, arrival 15:30
NsZurichHalf ==
  Journey("ns-8", TypeICE, Number2,
          AmsterdamDep(630, "5"), ZurichArr(930, Undef),
          <<AmsterdamDep(630, "5"), BaselStop, ZurichArr(930, Undef)>>,
          "scheduled")

\* An SBB journey Basel -> Zuerich of train 1 as sbbApi maps it
SbbJourney(id, arr, planned) ==
  Journey(id, TypeICE, Number1,
          Stop(NameBasel, <<>>, "CH", NoTime, 845, "4", Undef),
          Stop(NameZurich, CodeZurich, "CH", arr, NoTime, planned, Undef),
          <<Stop(NameBasel, <<>>, "CH", NoTime, 845, "4", Undef),
            Stop(NameZurich, CodeZurich, "CH", arr, NoTime, planned, Undef)>>,
          "scheduled")

SbbZurich == SbbJourney("sbb-1", 902, "31")        \* 15:02, platform 31
SbbZurichLate == SbbJourney("sbb-2", 930, "31")    \* 15:30, platform 31
SbbZurichNoPlatform == SbbJourney("sbb-3", 900, Undef)

\* An NL station of the station search that only NS knows
StationLelylaan ==
  [id |-> <<"a", "-", "l">>, displayName |-> <<"A", " ", "L">>, country |-> "NL",
   providerIds |-> [p \in ProviderID |-> IF p = "NS" THEN "ASDL" ELSE Undef]]

\* The searches the model runs: origin, destination and what each provider
\* answers when it answers
Scenario(from, to, ns, db, sbb) ==
  [from |-> from, to |-> to,
   responses |-> [p \in {"NS", "DB", "SBB"} |->
                    CASE p = "NS" -> ns [] p = "DB" -> db [] p = "SBB" -> sbb]]

Scenarios ==
  {Scenario(StationAmsterdam, StationFrankfurt, ns, db, <<>>) :
     ns \in {<<NsIce1>>, <<NsBare>>, <<NsIce1, NsIce2>>},
     db \in {<<>>, <<DbIce1>>, <<DbIc1>>}}
  \cup {Scenario(StationLelylaan, StationFrankfurt, <<NsIce1>>, <<DbIce1>>, <<>>)}
  \cup {Scenario(StationAmsterdam, StationFrankfurt, <<NsGarbled>>, db, <<>>) :
     db \in {<<>>, <<DbIce1>>}}
  \cup {Scenario(StationAmsterdam, StationZurich, ns, <<>>, sbb) :
     ns \in {<<NsZurich1>>, <<NsZurichOlten>>, <<NsZurich1, NsZurich2>>},
     sbb \in {<<>>, <<SbbZurich>>, <<SbbZurichLate>>, <<SbbZurichNoPlatform>>,
              <<SbbZurichNoPlatform, SbbZurich>>}}
  \cup {Scenario(StationAmsterdam, StationZurich, <<NsZurich1, NsZurichHalf>>,
                  <<>>, <<SbbZurich, SbbZurichLate>>)}

Tagged(source, journey) == [source |-> source, journey |-> journey]

\* The candidates a merge pass of SpecMerge is fed
Candidates ==
  {Tagged("NS", NsIce1), Tagged("DB", DbIce1), Tagged("DB", DbIc1),
   Tagged("NS", NsBare), Tagged("NS", NsIce2), Tagged("DB", DbIce1Late),
   Tagged("DB", DbIce1Shifted), Tagged("DB", DbIc1Late)}

\* All sequences over S of length 1..n
SeqsUpTo(S, n) == UNION {[1..k -> S] : k \in 1..n}

\* ------------------------------------------------------------------------
\* SBB platform enrichment (searchJourneys, internationalApi.ts)
\* ------------------------------------------------------------------------
\* country?.toUpperCase() on the country codes the model uses
UpperCountry(c) == IF c = "ch" THEN "CH" ELSE c

\* firstJourney.stops.find(stop => country upper-cased is "CH"), 0 for null
swissStopIndex(firstJourney) ==
  FindIndex([i \in 1..Len(firstJourney.stops) |->
               UpperCountry(firstJourney.stops[i].station.country) = "CH"])

\* registryMatch?.providerIds.SBB of the first registry station whose name
\* contains the Swiss stop's name; Undef when a link of the chain is missing
SwissQueryFrom(firstJourney) ==
  LET k == swissStopIndex(firstJourney)
  IN IF k = 0 THEN Undef
     ELSE LET registryMatches == findStationsByName(firstJourney.stops[k].station.name)
          IN IF registryMatches = <<>> THEN Undef
             ELSE registryMatches[1].providerIds["SBB"]

\* The conditions under which the loop body awaits sbbApi.searchJourneys
EnrichmentQueries(provider, journeys, toStation) ==
  /\ provider = "NS"
  /\ Truthy(toStation.providerIds["SBB"])
  /\ Len(journeys) > 0
  /\ Truthy(SwissQueryFrom(journeys[1]))

\* The predicate of swissJourneys.find: arrival within 20 minutes of the NS
\* arrival and a destination that names the searched station
SwissMatches(journey, firstJourney, toStation) ==
  LET swissArrivalTime == journey.arrival.scheduledArrival
      baseArrivalTime == firstJourney.arrival.scheduledArrival
  IN /\ swissArrivalTime # NoTime
     /\ baseArrivalTime # NoTime
     /\ baseArrivalTime # 0
     \* NaN is falsy in `!baseArrivalMillis`, and `NaN <= 20` is false
     /\ ValidTime(baseArrivalTime)
     /\ ValidTime(swissArrivalTime)
     /\ Abs(swissArrivalTime - baseArrivalTime) <= 20
     /\ \/ Includes(Lower(journey.arrival.station.name), Lower(toStation.displayName))
        \/ Lower(journey.arrival.station.code) = Lower(toStation.id)

\* swissArrival.platform || swissArrival.plannedPlatform || swissArrival.actualPlatform
HasPlatformData(swissArrival) ==
  \/ Truthy(swissArrival.platform)
  \/ Truthy(swissArrival.plannedPlatform)
  \/ Truthy(swissArrival.actualPlatform)

\* `matches` of the stop loop of the enrichment
StopMatchesDestination(stop, toStation) ==
  LET stopNameLower == Lower(stop.station.name)
      destNameLower == Lower(toStation.displayName)
  IN \/ Includes(stopNameLower, destNameLower)
     \/ Includes(destNameLower, stopNameLower)
     \/ Includes(StripWs(stopNameLower), StripWs(destNameLower))

\* The three platform fields of a stop, each `swissArrival.x ?? stop.x`
WithSwissPlatform(stop, swissArrival) ==
  [stop EXCEPT
     !.platform = Coalesce(swissArrival.platform, stop.platform),
     !.plannedPlatform = Coalesce(swissArrival.plannedPlatform, stop.plannedPlatform),
     !.actualPlatform = Coalesce(swissArrival.actualPlatform, stop.actualPlatform)]

\* Mutant of EnrichFirst: the splice is done for every matching SBB journey,
\* whether or not it carries platform data.
EnrichFirstUnguarded(firstJourney, swissJourneys, toStation) ==
  LET k == FindIndex([i \in 1..Len(swissJourneys) |->
                        SwissMatches(swissJourneys[i], firstJourney, toStation)])
  IN IF k = 0 THEN firstJourney
     ELSE LET swissArrival == swissJourneys[k].arrival
          IN [firstJourney EXCEPT
                !.arrival = WithSwissPlatform(firstJourney.arrival, swissArrival),
                !.stops = [i \in 1..Len(firstJourney.stops) |->
                   IF StopMatchesDestination(firstJourney.stops[i], toStation)
                   THEN [WithSwissPlatform(firstJourney.stops[i], swissArrival)
                           EXCEPT !.source = "SBB"]
                   ELSE firstJourney.stops[i]]]

\* What the enrichment does to journeys[0] once sbbApi has answered
EnrichFirst(firstJourney, swissJourneys, toStation) ==
  LET k == FindIndex([i \in 1..Len(swissJourneys) |->
                        SwissMatches(swissJourneys[i], firstJourney, toStation)])
  IN IF k = 0 THEN firstJourney
     ELSE LET swissArrival == swissJourneys[k].arrival
          IN IF ~HasPlatformData(swissArrival) THEN firstJourney
             ELSE [firstJourney EXCEPT
                     !.arrival = WithSwissPlatform(firstJourney.arrival, swissArrival),
                     !.stops = [i \in 1..Len(firstJourney.stops) |->
                        IF StopMatchesDestination(firstJourney.stops[i], toStation)
                        THEN [WithSwissPlatform(firstJourney.stops[i], swissArrival)
                                EXCEPT !.source = "SBB"]
                        ELSE firstJourney.stops[i]]]

\* The provider's journeys after the enrichment block: only journeys[0] is
\* touched
Enriched(journeys, swissJourneys, toStation) ==
  [journeys EXCEPT ![1] = EnrichFirst(journeys[1], swissJourneys, toStation)]

\* ------------------------------------------------------------------------
\* Conversion to storage input (internationalApi.ts, types/train.ts)
\* ------------------------------------------------------------------------
\* generateJourneyKey: `${trainType}${trainNumber}_${originStationId}_${depTime}`
generateJourneyKey(trainType, trainNumber, originStationId, scheduledDeparture) ==
  <<trainType \o trainNumber, originStationId, scheduledDeparture>>

\* generateJourneyKey throws: new Date(scheduledDeparture).toISOString() on
\* an Invalid Date
generateJourneyKeyThrows(scheduledDeparture) == scheduledDeparture = BadTime

\* One element of merged.stops.map(...) of toStoredJourneyInput
toStoredStop(stop, index, sources) ==
  [sequence |-> index,
   stationId |-> IF stop.station.code # <<>> THEN stop.station.code
                 ELSE Dashed(Lower(stop.station.name)),
   stationName |-> stop.station.name,
   country |-> IF Truthy(stop.station.country) THEN stop.station.country ELSE "XX",
   scheduledArrival |-> stop.scheduledArrival,
   scheduledDeparture |-> stop.scheduledDeparture,
   arrivalDelayMin |-> stop.arrivalDelay,
   departureDelayMin |-> stop.departureDelay,
   plannedPlatform |-> stop.plannedPlatform,
   actualPlatform |-> stop.actualPlatform,
   source |-> Coalesce(stop.source, sources[1]),
   cancelled |-> Coalesce(stop.cancelled, "false")]

\* toStoredJourneyInput; `clock` is what new Date() gives when the merged
\* journey has no scheduled departure
toStoredJourneyInput(merged, fromStation, toStation, clock) ==
  LET departure == IF merged.departure.scheduledDeparture # NoTime
                   THEN merged.departure.scheduledDeparture ELSE clock
  IN [journeyKey |-> generateJourneyKey(merged.trainType, merged.trainNumber,
                                        fromStation.id, departure),
      trainNumber |-> merged.trainNumber,
      trainType |-> merged.trainType,
      operator |-> merged.operator,
      originStationId |-> fromStation.id,
      originStationName |-> fromStation.displayName,
      destinationStationId |-> toStation.id,
      destinationStationName |-> toStation.displayName,
      scheduledDeparture |-> departure,
      scheduledArrival |-> merged.arrival.scheduledArrival,
      durationMinutes |-> merged.duration,
      status |-> merged.status,
      sources |-> merged.sources,
      nsRawId |-> merged.nsRawId,
      dbRawId |-> merged.dbRawId,
      sbbRawId |-> merged.sbbRawId,
      stops |-> [i \in 1..Len(merged.stops) |->
                   toStoredStop(merged.stops[i], i - 1, merged.sources)]]

\* ------------------------------------------------------------------------
\* Journey store (journeyStore.ts) over the tables journeys / journey_stops.
\* A table is the set of its rows in insertion order; created_at / updated_at
\* are left out.  A value that may be null is a sequence of length 0 or 1.
\* ------------------------------------------------------------------------
\* inputToJourneyInsert
inputToJourneyInsert(input) ==
  [journey_key |-> input.journeyKey,
   train_number |-> input.trainNumber,
   train_type |-> input.trainType,
   operator |-> input.operator,
   origin_station_id |-> input.originStationId,
   origin_station_name |-> input.originStationName,
   destination_station_id |-> input.destinationStationId,
   destination_station_name |-> input.destinationStationName,
   scheduled_departure |-> input.scheduledDeparture,
   scheduled_arrival |-> input.scheduledArrival,
   duration_minutes |-> input.durationMinutes,
   status |-> input.status,
   sources |-> input.sources,
   ns_raw_id |-> input.nsRawId,
   db_raw_id |-> input.dbRawId,
   sbb_raw_id |-> input.sbbRawId]

\* inputToStopInsert; the row id the database generates is named after the
\* (journey_id, sequence) pair, which the table keeps unique
inputToStopInsert(stop, journeyId) ==
  [id |-> <<"stop", journeyId[2], stop.sequence>>,
   journey_id |-> journeyId,
   sequence |-> stop.sequence,
   station_id |-> stop.stationId,
   station_name |-> stop.stationName,
   country |-> stop.country,
   scheduled_arrival |-> stop.scheduledArrival,
   scheduled_departure |-> stop.scheduledDeparture,
   arrival_delay_min |-> stop.arrivalDelayMin,
   departure_delay_min |-> stop.departureDelayMin,
   planned_platform |-> stop.plannedPlatform,
   actual_platform |-> stop.actualPlatform,
   source |-> stop.source,
   cancelled |-> stop.cancelled]

\* rowToStoredJourneyStop
rowToStoredJourneyStop(row) ==
  [id |-> row.id,
   journeyId |-> row.journey_id,
   sequence |-> row.sequence,
   stationId |-> row.station_id,
   stationName |-> row.station_name,
   country |-> row.country,
   scheduledArrival |-> row.scheduled_arrival,
   scheduledDeparture |-> row.scheduled_departure,
   arrivalDelayMin |-> row.arrival_delay_min,
   departureDelayMin |-> row.departure_delay_min,
   plannedPlatform |-> row.planned_platform,
   actualPlatform |-> row.actual_platform,
   source |-> row.source,
   cancelled |-> row.cancelled]

\* .order("sequence") and .sort((a, b) => a.sequence - b.sequence)
RECURSIVE OrderBySequence(_)
OrderBySequence(rows) ==
  IF rows = {} THEN <<>>
  ELSE LET first == CHOOSE r \in rows : \A o \in rows : r.sequence <= o.sequence
       IN <<first>> \o OrderBySequence(rows \ {first})

\* rowToStoredJourney
rowToStoredJourney(row, stopRows) ==
  [id |-> row.id,
   journeyKey |-> row.journey_key,
   trainNumber |-> row.train_number,
   trainType |-> row.train_type,
   operator |-> row.operator,
   originStationId |-> row.origin_station_id,
   originStationName |-> row.origin_station_name,
   destinationStationId |-> row.destination_station_id,
   destinationStationName |-> row.destination_station_name,
   scheduledDeparture |-> row.scheduled_departure,
   scheduledArrival |-> row.scheduled_arrival,
   durationMinutes |-> row.duration_minutes,
   status |-> row.status,
   sources |-> row.sources,
   nsRawId |-> row.ns_raw_id,
   dbRawId |-> row.db_raw_id,
   sbbRawId |-> row.sbb_raw_id,
   stops |-> LET ordered == OrderBySequence(stopRows)
             IN [i \in 1..Len(ordered) |-> rowToStoredJourneyStop(ordered[i])]]

\* The row the database holds for an insert or update under the given id
JourneyRow(id, insert) == [id |-> id] @@ insert

\* select("*").eq("journey_id", id) on journey_stops
StopsOfJourney(stops, id) == {s \in stops : s.journey_id = id}

\* insert(stopsInsert) on journey_stops: one statement, refused as a whole
\* when the database is unreachable or a (journey_id, sequence) pair exists
InsertStops(stops, input, id, up) ==
  LET stopsInsert == {inputToStopInsert(input.stops[i], id) : i \in 1..Len(input.stops)}
  IN IF up /\ \A n \in stopsInsert : \A s \in stops :
                ~(s.journey_id = n.journey_id /\ s.sequence = n.sequence)
     THEN stops \cup stopsInsert
     ELSE stops

\* A running storeJourney(input) call: `at` is the await it stands before,
\* `id` the row it works on, `row` the row getJourneyById has read, `result`
\* what the call resolved to (<<>> for null)
NewTask(input) ==
  [input |-> input, at |-> "find", id |-> <<"row", 0>>, row |-> <<>>, result |-> <<>>]

\* One await of storeJourney and of the store functions it calls.  `db` is
\* [journeys, stops]; `up` tells whether the database answers without error.
TaskStep(t, db, up) ==
  CASE t.at = "find" ->
         \* findJourneyByKey: select journeys by journey_key, maybeSingle
         LET hits == SelectSeq(db.journeys,
                               LAMBDA r : r.journey_key = t.input.journeyKey)
         IN IF ~up \/ hits = <<>>
            THEN [task |-> [t EXCEPT !.at = "insert"], db |-> db]
            ELSE [task |-> [t EXCEPT !.at = "findStops", !.id = hits[1].id], db |-> db]
    [] t.at = "findStops" ->
         \* findJourneyByKey: select journey_stops; `existing` is returned
         [task |-> [t EXCEPT !.at = "update"], db |-> db]
    [] t.at = "update" ->
         \* updateJourney: update journeys where id
         IF ~up
         THEN [task |-> [t EXCEPT !.at = "done"], db |-> db]
         ELSE [task |-> [t EXCEPT !.at = "deleteStops"],
               db |-> [db EXCEPT !.journeys =
                         [i \in 1..Len(@) |->
                            IF @[i].id = t.id
                            THEN JourneyRow(t.id, inputToJourneyInsert(t.input))
                            ELSE @[i]]]]
    [] t.at = "deleteStops" ->
         \* updateJourney: delete journey_stops where journey_id
         [task |-> [t EXCEPT !.at = IF Len(t.input.stops) > 0
                                    THEN "insertStops" ELSE "getRow"],
          db |-> IF up
                 THEN [db EXCEPT !.stops = @ \ StopsOfJourney(@, t.id)]
                 ELSE db]
    [] t.at = "insert" ->
         \* storeJourney: insert into journeys; journey_key is UNIQUE
         IF ~up \/ \E i \in 1..Len(db.journeys) :
                     db.journeys[i].journey_key = t.input.journeyKey
         THEN [task |-> [t EXCEPT !.at = "done"], db |-> db]
         ELSE LET id == <<"row", Len(db.journeys) + 1>>
              IN [task |-> [t EXCEPT !.id = id,
                                     !.at = IF Len(t.input.stops) > 0
                                            THEN "insertStops" ELSE "getRow"],
                  db |-> [db EXCEPT !.journeys =
                            Append(@, JourneyRow(id, inputToJourneyInsert(t.input)))]]
    [] t.at = "insertStops" ->
         \* storeJourney / updateJourney: insert into journey_stops, an error
         \* is logged or ignored
         [task |-> [t EXCEPT !.at = "getRow"],
          db |-> [db EXCEPT !.stops = InsertStops(@, t.input, t.id, up)]]
    [] t.at = "getRow" ->
         \* getJourneyById: select journeys by id, maybeSingle
         LET hits == SelectSeq(db.journeys, LAMBDA r : r.id = t.id)
         IN IF ~up \/ hits = <<>>
            THEN [task |-> [t EXCEPT !.at = "done"], db |-> db]
            ELSE [task |-> [t EXCEPT !.at = "getStops", !.row = <<hits[1]>>], db |-> db]
    [] t.at = "getStops" ->
         \* getJourneyById: select journey_stops, `stopRows ?? []`
         LET stopRows == IF up THEN StopsOfJourney(db.stops, t.id) ELSE {}
         IN [task |-> [t EXCEPT !.at = "done",
                                !.result = <<rowToStoredJourney(t.row[1], stopRows)>>],
             db |-> db]

\* A storeJourney call run from where it stands to its end with no other
\* call running in between
RECURSIVE RunTask(_, _, _)
RunTask(t, db, up) ==
  IF t.at = "done" THEN [task |-> t, db |-> db]
  ELSE LET next == TaskStep(t, db, up)
       IN RunTask(next.task, next.db, up)

\* storeJourneys: the values of the fulfilled, non-null results, in input order
StoredOf(ts) ==
  LET done == SelectSeq(ts, LAMBDA t : t.result # <<>>)
  IN [i \in 1..Len(done) |-> done[i].result[1]]

\* The in-memory versions searchJourneys returns when nothing was stored
TempJourneys(storageInputs) ==
  [i \in 1..Len(storageInputs) |->
     [id |-> <<"temp", i - 1>>] @@
     [storageInputs[i] EXCEPT !.stops =
        [k \in 1..Len(@) |->
           [id |-> <<"temp-stop", k - 1>>, journeyId |-> <<"temp", i - 1>>] @@ @[k]]]]

\* Mutant of SearchResult: whatever storeJourneys gave is returned.
SearchResultStoredOnly(storedJourneys, storageInputs) == storedJourneys

\* The value searchJourneys returns
SearchResult(storedJourneys, storageInputs) ==
  IF Len(storedJourneys) = 0 THEN TempJourneys(storageInputs) ELSE storedJourneys

\* ------------------------------------------------------------------------
\* Station search (searchStations, internationalApi.ts).  The UnifiedStation
\* objects alive are kept in one sequence, the registry's objects first; a
\* result list holds positions of that sequence, so that a write through a
\* result is a write to the shared object.
\* ------------------------------------------------------------------------
\* The Station a provider's searchStations maps
ApiStation(name, code, uicCode, country) ==
  [name |-> name, code |-> code, uicCode |-> uicCode, country |-> country]

NsBern == ApiStation(NameBern, "BN", "8507000", "CH")
NsBernParen ==                            \* "Bern (CH)", under another code
  ApiStation(<<"B", "e", "r", "n", " ", "(", "C", ")">>, "BERN", Undef, "ch")
NsBergen == ApiStation(<<"B", "e", "r", "g">>, "", "8400091", "NL")
\* mapTimetableStation: the EVA number as code and uicCode, country "DE"
DbBernOther == ApiStation(NameBern, "8507099", "8507099", "DE")
DbBergen == ApiStation(<<"B", "e", "r", "g">>, "8400090", "8400090", "DE")
DbBernHb ==
  ApiStation(<<"B", "e", "r", "n", " ", "H", "B">>, "8507000", "8507000", "DE")

\* A settled promise of provider.searchStations(query)
Fulfilled(stationList) == [status |-> "fulfilled", stations |-> stationList]
Rejected == [status |-> "rejected", stations |-> <<>>]

\* What NS and DB may answer to a station query
StationAnswers ==
  [NS |-> {Rejected, Fulfilled(<<NsBern>>), Fulfilled(<<NsBernParen, NsBergen>>)},
   DB |-> {Rejected, Fulfilled(<<DbBernOther, DbBergen>>), Fulfilled(<<DbBernHb>>)}]

\* The queries of the model: "Be", "bn" (an alias of Bern) and "b"
StationQueries == {<<"B", "e">>, <<"b", "n">>, <<"b">>}

\* findStationIdByAlias (data/stationAliases): the alias table on the
\* normalized query, <<>> for null
findStationIdByAlias(query) ==
  IF Trim(Lower(query)) = <<"b", "n">> THEN StationBern.id ELSE <<>>

\* The position of a registry object
RegistryIndex(id) ==
  FindIndex([i \in 1..Len(STATION_REGISTRY) |-> STATION_REGISTRY[i].id = id])

\* getActiveProviders: Object.values(PROVIDERS) without the nulls
getActiveProviders ==
  SelectSeq(<<"NS", "DB", "SNCF", "OBB", "SBB">>, LAMBDA p : PROVIDERS[p] # Undef)

\* s.replace(/\s*\([^)]*\)\s*/g, " "): every parenthesis with the
\* whitespace around it becomes one blank
RECURSIVE StripParens(_)
StripParens(s) ==
  LET open == FindIndex([i \in 1..Len(s) |->
                           s[i] = "(" /\ \E k \in (i + 1)..Len(s) : s[k] = ")"])
  IN IF open = 0 THEN s
     ELSE LET close == open + FindIndex([k \in 1..(Len(s) - open) |->
                                            s[open + k] = ")"])
          IN TrimRight(SubSeq(s, 1, open - 1)) \o <<" ">>
               \o StripParens(TrimLeft(SubSeq(s, close + 1, Len(s))))

\* The three lookups of the fold: exact name, provider id, core name;
\* the position in `results` of the station found, 0 for none
FindExisting(objs, results, apiStation) ==
  LET normalizedName == Trim(Lower(apiStation.name))
      apiStationId == IF Truthy(apiStation.code) THEN apiStation.code
                      ELSE apiStation.uicCode
      coreApiName == Trim(StripParens(normalizedName))
      byName == FindIndex([k \in 1..Len(results) |->
                  Trim(Lower(objs[results[k]].displayName)) = normalizedName])
      byId == FindIndex([k \in 1..Len(results) |->
                \E p \in ProviderID :
                  /\ Truthy(objs[results[k]].providerIds[p])
                  /\ objs[results[k]].providerIds[p] = apiStationId])
      byCore == FindIndex([k \in 1..Len(results) |->
                  LET coreExistingName ==
                        Trim(StripParens(Lower(objs[results[k]].displayName)))
                  IN \/ coreExistingName = coreApiName
                     \/ Includes(coreExistingName, coreApiName)
                     \/ Includes(coreApiName, coreExistingName)])
  IN IF byName # 0 THEN byName
     ELSE IF Truthy(apiStationId) /\ byId # 0 THEN byId
     ELSE byCore

\* Mutant of AddProviderId: the id a provider reports replaces the one held.
AddProviderIdOverwrite(objs, at, provider, apiStationId) ==
  [objs EXCEPT ![at].providerIds[provider] = apiStationId]

\* "Add provider ID to existing station if not present"
AddProviderId(objs, at, provider, apiStationId) ==
  IF ~Truthy(objs[at].providerIds[provider])
  THEN [objs EXCEPT ![at].providerIds[provider] = apiStationId]
  ELSE objs

\* "Create new unified station from API result"
NewStation(provider, apiStation) ==
  [id |-> Dashed(Trim(Lower(apiStation.name))),
   displayName |-> apiStation.name,
   country |-> IF Truthy(apiStation.country)
               THEN UpperCountry(apiStation.country) ELSE "XX",
   providerIds |-> [p \in ProviderID |->
      IF p = provider
      THEN (IF Truthy(apiStation.code) THEN apiStation.code ELSE apiStation.uicCode)
      ELSE Undef]]

\* One iteration of `for (const apiStation of stations)`; acc is
\* [objs, results]
FoldApiStation(acc, provider, apiStation) ==
  LET k == FindExisting(acc.objs, acc.results, apiStation)
      apiStationId == IF Truthy(apiStation.code) THEN apiStation.code
                      ELSE apiStation.uicCode
  IN IF k # 0
     THEN [acc EXCEPT !.objs = AddProviderId(@, acc.results[k], provider, apiStationId)]
     ELSE [objs |-> Append(acc.objs, NewStation(provider, apiStation)),
           results |-> Append(acc.results, Len(acc.objs) + 1)]

RECURSIVE FoldApiStations(_, _, _)
FoldApiStations(acc, provider, stationList) ==
  IF stationList = <<>> THEN acc
  ELSE FoldApiStations(FoldApiStation(acc, provider, Head(stationList)),
                       provider, Tail(stationList))

\* `for (const result of providerResults)`: the fulfilled results, in the
\* order of the providers
RECURSIVE FoldProviderResults(_, _, _)
FoldProviderResults(acc, providers, answers) ==
  IF providers = <<>> THEN acc
  ELSE LET result == answers[Head(providers)]
           next == IF result.status = "fulfilled"
                   THEN FoldApiStations(acc, Head(providers), result.stations)
                   ELSE acc
       IN FoldProviderResults(next, Tail(providers), answers)

\* String.prototype.startsWith
StartsWith(s, prefix) ==
  Len(prefix) <= Len(s) /\ SubSeq(s, 1, Len(prefix)) = prefix

\* The order localeCompare puts the characters of the model's names in
LocaleAlphabet ==
  <<" ", "(", ")", "a", "b", "c", "e", "f", "g", "h", "k", "n", "r", "s">>

CharRank(c) ==
  FindIndex([i \in 1..Len(LocaleAlphabet) |-> LocaleAlphabet[i] = LowerChar(c)])

\* a.localeCompare(b) < 0
RECURSIVE LocaleBefore(_, _)
LocaleBefore(a, b) ==
  IF b = <<>> THEN FALSE
  ELSE IF a = <<>> THEN TRUE
  ELSE IF CharRank(Head(a)) # CharRank(Head(b))
       THEN CharRank(Head(a)) < CharRank(Head(b))
       ELSE LocaleBefore(Tail(a), Tail(b))

\* The number of providers a station holds an id of
ProviderCount(station) ==
  Cardinality({p \in ProviderID : Truthy(station.providerIds[p])})

\* The comparator of results.sort gives a negative number for (a, b)
SortsBefore(a, b, queryLower) ==
  LET aExact == StartsWith(Lower(a.displayName), queryLower)
      bExact == StartsWith(Lower(b.displayName), queryLower)
  IN IF ProviderCount(a) # ProviderCount(b)
     THEN ProviderCount(b) < ProviderCount(a)
     ELSE IF aExact /\ ~bExact THEN TRUE
     ELSE IF bExact /\ ~aExact THEN FALSE
     ELSE LocaleBefore(a.displayName, b.displayName)

\* results.sort(...): a stable sort, built by insertion
RECURSIVE SortResults(_, _, _)
SortResults(results, objs, queryLower) ==
  IF results = <<>> THEN <<>>
  ELSE LET sorted == SortResults(SubSeq(results, 1, Len(results) - 1), objs, queryLower)
           x == results[Len(results)]
           at == FindIndex([k \in 1..Len(sorted) |->
                   SortsBefore(objs[x], objs[sorted[k]], queryLower)])
       IN IF at = 0 THEN Append(sorted, x)
          ELSE SubSeq(sorted, 1, at - 1) \o <<x>> \o SubSeq(sorted, at, Len(sorted))

\* The part of searchStations before the await: alias match, then the
\* registry matches not seen yet
InitialResults(query) ==
  LET aliasMatch == findStationIdByAlias(query)
      fromAlias == IF aliasMatch # <<>> /\ RegistryIndex(aliasMatch) # 0
                   THEN <<RegistryIndex(aliasMatch)>> ELSE <<>>
      registryMatches == findStationsByName(query)
      fromName == [k \in 1..Len(registryMatches) |->
                     RegistryIndex(registryMatches[k].id)]
  IN fromAlias \o SelectSeq(fromName, LAMBDA i : ~\E k \in 1..Len(fromAlias) :
                                                    fromAlias[k] = i)

\* A searchStations call that has not been made
NoCall == [at |-> "idle", query |-> <<>>, results |-> <<>>,
           answers |-> [p \in {"NS", "DB"} |-> Rejected]]

\* ------------------------------------------------------------------------
\* Stop delays of the provider adapters (dbApi.ts, nsApi.ts, providers/sbb).
\* In this part a timestamp is a number of milliseconds, as getTime() gives.
\* ------------------------------------------------------------------------
\* Math.round(x / d) for whole x and d > 0: the nearest whole number, a half
\* going towards +Infinity
RoundDiv(x, d) == (2 * x + d) \div (2 * d)

\* The number a delay is when Math.round was given NaN
NaNDelay == 0 - 9998

\* !s for an optional timestamp string: an unparseable string is truthy
NoString(s) == s = NoTime

\* DB: calculateDelayMinutes. With an unparseable string diffMs is NaN,
\* `diffMs <= 0` is false and Math.round(NaN) is returned.
calculateDelayMinutes(scheduled, actual) ==
  IF NoString(scheduled) \/ NoString(actual) THEN NoDelay
  ELSE IF ~ValidTime(scheduled) \/ ~ValidTime(actual) THEN NaNDelay
  ELSE IF actual - scheduled <= 0 THEN NoDelay
  ELSE RoundDiv(actual - scheduled, 60000)

\* SBB: toDelayMinutes
toDelayMinutes(scheduled, prognosis) ==
  IF NoString(scheduled) \/ NoString(prognosis) THEN NoDelay
  ELSE IF ~ValidTime(scheduled) \/ ~ValidTime(prognosis) THEN NoDelay
  ELSE RoundDiv(prognosis - scheduled, 60000)

\* NS: toMinutes; NoDelay stands for a null or undefined number of seconds
toMinutes(seconds) ==
  IF seconds = NoDelay THEN NoDelay ELSE RoundDiv(seconds, 60)

\* The delay fields of the JourneyStop an adapter makes of a raw stop:
\* DB mapJourneyStop, SBB mapStop, NS mapStop
MapStopDelays(rawStop) ==
  CASE rawStop.provider = "DB" ->
         [departureDelay |->
            calculateDelayMinutes(rawStop.timeSchedule, rawStop.timePredicted),
          arrivalDelay |->
            calculateDelayMinutes(rawStop.timeSchedule, rawStop.timePredicted)]
    [] rawStop.provider = "SBB" ->
         [departureDelay |->
            toDelayMinutes(rawStop.departure, rawStop.prognosisDeparture),
          arrivalDelay |->
            toDelayMinutes(rawStop.arrival, rawStop.prognosisArrival)]
    [] OTHER ->
         [departureDelay |-> toMinutes(rawStop.departureDelayInSeconds),
          arrivalDelay |-> toMinutes(rawStop.arrivalDelayInSeconds)]

\* A scheduled time, 10:00:00.000 of the day
ScheduledMs == 600 * 60000

\* Scheduled times a provider sends: none, unparseable, 10:00
ScheduledTimes == {NoTime, BadTime, ScheduledMs}

\* Predicted times a provider sends: none, unparseable, and 10:00 shifted
\* by -90 s, -20 s, 0, 20 s, 29.999 s, 30 s, 90 s and 150 s
PredictedTimes ==
  {NoTime, BadTime} \cup
  {ScheduledMs + d : d \in {0 - 90000, 0 - 20000, 0, 20000, 29999, 30000,
                            90000, 150000}}

\* Delays in seconds NS sends: none, -90, -20, 0, 20, 30, 90, 150
DelaySeconds == {NoDelay, 0 - 90, 0 - 20, 0, 20, 30, 90, 150}

\* The raw stops the adapters are given
RawStops ==
  {[provider |-> "DB", timeSchedule |-> sch, timePredicted |-> act] :
     sch \in ScheduledTimes, act \in PredictedTimes}
  \cup
  {[provider |-> "SBB", arrival |-> ScheduledMs, prognosisArrival |-> arr,
    departure |-> sch, prognosisDeparture |-> act] :
     sch \in ScheduledTimes, act \in PredictedTimes,
     arr \in {NoTime, ScheduledMs + 90000}}
  \cup
  {[provider |-> "NS", departureDelayInSeconds |-> dep,
    arrivalDelayInSeconds |-> arr] :
     dep \in DelaySeconds, arr \in {NoDelay, 0, 90}}

\* ------------------------------------------------------------------------
\* State
\* ------------------------------------------------------------------------
VARIABLES
  fromStation,   \* searchJourneys: the origin UnifiedStation
  toStation,     \* searchJourneys: the destination UnifiedStation
  pc,            \* where the running searchJourneys call stands
  allJourneys,   \* searchJourneys: the tagged candidates collected so far
  folded,        \* mergeJourneys: how many candidates the loop has folded
  byKey,         \* mergeJourneys: the Map byKey, in insertion order
  configured,    \* isSupabaseConfigured()
  responses,     \* what each provider's searchJourneys resolves to
  run,           \* how many searchJourneys calls have been started
  behaviour,     \* per provider: "ok" or "throws" during the running search
  dbUp,          \* whether Supabase answers without error during the search
  queue,         \* providersToQuery, the providers the loop has yet to visit
  fetched,       \* `journeys` of the iteration that awaits sbbApi
  now,           \* the latest reading of new Date()
  inputs,        \* searchJourneys: storageInputs
  tasks,         \* storeJourneys: the storeJourney calls of the batch
  db,            \* the tables journeys and journey_stops
  result,        \* what the last finished searchJourneys call returned
  prev,          \* ghost: keys, provider behaviour and row count of the
                 \* search before the running one
  asked,         \* ghost: the providers whose searchJourneys the loop of
                 \* the running search has called
  objects,       \* the UnifiedStation objects alive, STATION_REGISTRY's first
  calls,         \* the searchStations calls: where each stands, its query,
                 \* its `results` and what the providers answered it
  raw,           \* the raw stop of a provider response an adapter is given
  mapped,        \* the delays of the JourneyStop the adapter made of it
  searches,      \* the searchJourneys calls that store at the same time:
                 \* where each stands, its storageInputs, its storeJourney
                 \* calls and what it returned
  outages,       \* how many requests to Supabase have failed
  refresh,       \* the running getJourneyDetails(id, true): where it stands,
                 \* the journey it read, the sources it has yet to ask, its
                 \* `updates`, what it returned; ghost: the tables as they
                 \* were when it began, the journeys the providers gave,
                 \* the input of the search that stored last, whether a
                 \* refresh has written a status
  ops            \* how many refreshes and repeated searches have begun

stationVars == <<objects, calls>>

\* The state of the operations outside searchJourneys and searchStations
adapterVars == <<raw, mapped>>
storeVars == <<searches, outages>>
refreshVars == <<refresh, ops>>
sideVars == <<adapterVars, storeVars, refreshVars>>

searchVars ==
  <<configured, responses, run, behaviour, dbUp, queue, fetched, now, inputs,
    tasks, db, result, prev, asked, objects, calls, sideVars>>

vars ==
  <<fromStation, toStation, pc, allJourneys, folded, byKey, configured,
    responses, run, behaviour, dbUp, queue, fetched, now, inputs, tasks, db,
    result, prev, asked, objects, calls, sideVars>>

\* No adapter call under way
AdaptersIdle == raw = <<>> /\ mapped = <<>>

\* The searches that store concurrently
Searchers == {1, 2}

\* A search that has not reached storeJourneys
NoSearch == [at |-> "idle", inputs |-> <<>>, tasks |-> <<>>, result |-> <<>>]

\* No concurrent store under way
StoreIdle == searches = [s \in Searchers |-> NoSearch] /\ outages = 0

\* `updates` of refreshJourneyRealtime as it is initialised
NoUpdates == [status |-> Undef, stops |-> <<>>]

\* No refresh under way
NoRefresh ==
  [at |-> "idle", journey |-> <<>>, pending |-> <<>>, updates |-> NoUpdates,
   result |-> <<>>, before |-> [journeys |-> <<>>, stops |-> {}],
   seen |-> <<>>, searched |-> <<>>, escalated |-> FALSE]

RefreshIdle == refresh = NoRefresh /\ ops = 0

SideIdle == AdaptersIdle /\ StoreIdle /\ RefreshIdle

AllOk == [p \in {"NS", "DB", "SBB"} |-> "ok"]

NoSearchYet ==
  [run |-> 0, keys |-> {}, behaviour |-> AllOk, stored |-> FALSE, rows |-> 0]

\* ------------------------------------------------------------------------
\* The merge pass
\* ------------------------------------------------------------------------
\* One iteration of `for (const { source, journey } of journeys)`
FoldNext ==
  /\ pc = "merge"
  /\ folded < Len(allJourneys)
  /\ byKey' = MergeStep(byKey, folded + 1, allJourneys[folded + 1],
                        fromStation, toStation)
  /\ folded' = folded + 1
  /\ UNCHANGED <<fromStation, toStation, pc, allJourneys>>
  /\ UNCHANGED searchVars

MergeDone == pc = "merge" /\ folded = Len(allJourneys)

\* mergeJourneys on every candidate list of at most MaxCands candidates, for
\* a search Amsterdam -> Frankfurt
InitMerge ==
  /\ fromStation = StationAmsterdam
  /\ toStation = StationFrankfurt
  /\ pc = "merge"
  /\ allJourneys \in SeqsUpTo(Candidates, MaxCands)
  /\ folded = 0
  /\ byKey = <<>>
  /\ configured = FALSE
  /\ responses = [p \in {"NS", "DB", "SBB"} |-> <<>>]
  /\ run = 1
  /\ behaviour = AllOk
  /\ dbUp = TRUE
  /\ queue = <<>>
  /\ fetched = <<>>
  /\ now = 1000
  /\ inputs = <<>>
  /\ tasks = <<>>
  /\ db = [journeys |-> <<>>, stops |-> {}]
  /\ result = <<>>
  /\ prev = NoSearchYet
  /\ asked = {}
  /\ objects = STATION_REGISTRY
  /\ calls = [c \in 1..MaxCalls |-> NoCall]
  /\ SideIdle

NextMerge == FoldNext

SpecMerge == InitMerge /\ [][NextMerge]_vars

\* ------------------------------------------------------------------------
\* searchJourneys, one step per await
\* ------------------------------------------------------------------------
\* providersToQuery: a Set, iterated in insertion order
providersToQuery(from, to) ==
  LET primaryProvider == getProviderForCountry(from.country)
      secondaryProvider == getProviderForCountry(to.country)
  IN (IF primaryProvider # Undef THEN <<primaryProvider>> ELSE <<>>)
     \o (IF secondaryProvider # Undef /\ secondaryProvider # primaryProvider
         THEN <<secondaryProvider>> ELSE <<>>)

\* !fromId || !toId is false
HasStationIds(p, from, to) ==
  Truthy(toProviderStationId(p, from)) /\ Truthy(toProviderStationId(p, to))

\* The providers a search sends a request to
Called(from, to, resp) ==
  LET selected == {p \in {"NS", "DB"} :
                     /\ \E i \in 1..Len(providersToQuery(from, to)) :
                          providersToQuery(from, to)[i] = p
                     /\ HasStationIds(p, from, to)}
  IN selected \cup (IF "NS" \in selected /\ EnrichmentQueries("NS", resp["NS"], to)
                    THEN {"SBB"} ELSE {})

TagAll(source, journeys) ==
  [i \in 1..Len(journeys) |-> Tagged(source, journeys[i])]

\* provider.supportsNameQuery: an optional member of TrainProvider that
\* neither NSProvider nor DBProvider declares
supportsNameQuery(p) == FALSE

\* The conditions of the second, display-name query to the same provider
NameFallbackQueries(provider, journeys, from) ==
  /\ Len(journeys) = 0
  /\ supportsNameQuery(provider)
  /\ ProviderCountry(provider) # from.country

\* A call of searchJourneys starts: provider selection.  How the providers
\* and the database behave during this search is drawn here.
StartSearch ==
  /\ pc \in {"idle", "done", "rejected"}
  /\ run < MaxRuns
  /\ run' = run + 1
  /\ \E b \in [Called(fromStation, toStation, responses) -> {"ok", "throws"}] :
       behaviour' = [p \in {"NS", "DB", "SBB"} |->
                       IF p \in DOMAIN b THEN b[p] ELSE "ok"]
  /\ dbUp' \in (IF configured THEN BOOLEAN ELSE {TRUE})
  /\ queue' = providersToQuery(fromStation, toStation)
  /\ allJourneys' = <<>>
  /\ folded' = 0
  /\ byKey' = <<>>
  /\ fetched' = <<>>
  /\ inputs' = <<>>
  /\ tasks' = <<>>
  /\ result' = <<>>
  /\ prev' = IF pc = "done"
             THEN [run |-> run,
                   keys |-> {inputs[i].journeyKey : i \in 1..Len(inputs)},
                   behaviour |-> behaviour,
                   stored |-> configured /\ dbUp,
                   rows |-> Len(db.journeys)]
             ELSE prev
  /\ pc' = "loop"
  /\ UNCHANGED <<fromStation, toStation, configured, responses, now, db>>
  /\ asked' = {}
  /\ UNCHANGED <<stationVars, sideVars>>

\* `continue`: the provider has no id for one of the stations
SkipProvider ==
  /\ pc = "loop"
  /\ queue # <<>>
  /\ ~HasStationIds(Head(queue), fromStation, toStation)
  /\ queue' = Tail(queue)
  /\ UNCHANGED <<fromStation, toStation, pc, allJourneys, folded, byKey,
                 configured, responses, run, behaviour, dbUp, fetched, now,
                 inputs, tasks, db, result, prev>>
  /\ UNCHANGED <<asked, objects, calls, sideVars>>

\* await provider.searchJourneys(...): the request of the next provider goes out
IssueQuery ==
  /\ pc = "loop"
  /\ queue # <<>>
  /\ HasStationIds(Head(queue), fromStation, toStation)
  /\ pc' = "query"
  /\ UNCHANGED <<fromStation, toStation, allJourneys, folded, byKey,
                 configured, responses, run, behaviour, dbUp, queue, fetched,
                 now, inputs, tasks, db, result, prev>>
  /\ asked' = asked \cup {Head(queue)}
  /\ UNCHANGED <<stationVars, sideVars>>

\* Mutant of QueryThrows: a provider's failure ends the provider loop.
QueryThrowsAborts ==
  /\ pc = "query"
  /\ behaviour[Head(queue)] = "throws"
  /\ queue' = <<>>
  /\ pc' = "loop"
  /\ UNCHANGED <<fromStation, toStation, allJourneys, folded, byKey,
                 configured, responses, run, behaviour, dbUp, fetched, now,
                 inputs, tasks, db, result, prev>>
  /\ UNCHANGED <<asked, objects, calls, sideVars>>

\* The provider's call rejects: the catch of the loop body logs it
QueryThrows ==
  /\ pc = "query"
  /\ behaviour[Head(queue)] = "throws"
  /\ queue' = Tail(queue)
  /\ pc' = "loop"
  /\ UNCHANGED <<fromStation, toStation, allJourneys, folded, byKey,
                 configured, responses, run, behaviour, dbUp, fetched, now,
                 inputs, tasks, db, result, prev>>
  /\ UNCHANGED <<asked, objects, calls, sideVars>>

\* The provider's call resolves: either the enrichment awaits sbbApi, or the
\* journeys are pushed and the loop goes on.  The display-name fallback is
\* never awaited: no provider supports name queries.
QueryReturns ==
  /\ pc = "query"
  /\ behaviour[Head(queue)] = "ok"
  /\ ~NameFallbackQueries(Head(queue), responses[Head(queue)], fromStation)
  /\ LET provider == Head(queue)
         journeys == responses[provider]
     IN IF EnrichmentQueries(provider, journeys, toStation)
        THEN /\ fetched' = journeys
             /\ pc' = "enrich"
             /\ UNCHANGED <<allJourneys, queue>>
        ELSE /\ allJourneys' = allJourneys \o TagAll(provider, journeys)
             /\ queue' = Tail(queue)
             /\ pc' = "loop"
             /\ UNCHANGED fetched
  /\ UNCHANGED <<fromStation, toStation, folded, byKey, configured, responses,
                 run, behaviour, dbUp, now, inputs, tasks, db, result, prev>>
  /\ UNCHANGED <<asked, objects, calls, sideVars>>

\* Mutant of EnrichThrows: the rejection of sbbApi discards the journeys of
\* the iteration.
EnrichThrowsDrops ==
  /\ pc = "enrich"
  /\ behaviour["SBB"] = "throws"
  /\ fetched' = <<>>
  /\ queue' = Tail(queue)
  /\ pc' = "loop"
  /\ UNCHANGED <<fromStation, toStation, allJourneys, folded, byKey,
                 configured, responses, run, behaviour, dbUp, now, inputs,
                 tasks, db, result, prev>>
  /\ UNCHANGED <<asked, objects, calls, sideVars>>

\* sbbApi.searchJourneys rejects: the inner catch logs it, the NS journeys
\* are pushed as they came
EnrichThrows ==
  /\ pc = "enrich"
  /\ behaviour["SBB"] = "throws"
  /\ allJourneys' = allJourneys \o TagAll(Head(queue), fetched)
  /\ fetched' = <<>>
  /\ queue' = Tail(queue)
  /\ pc' = "loop"
  /\ UNCHANGED <<fromStation, toStation, folded, byKey, configured, responses,
                 run, behaviour, dbUp, now, inputs, tasks, db, result, prev>>
  /\ UNCHANGED <<asked, objects, calls, sideVars>>

\* sbbApi.searchJourneys resolves: the splice into journeys[0], then the push
EnrichReturns ==
  /\ pc = "enrich"
  /\ behaviour["SBB"] = "ok"
  /\ allJourneys' = allJourneys \o
       TagAll(Head(queue), Enriched(fetched, responses["SBB"], toStation))
  /\ fetched' = <<>>
  /\ queue' = Tail(queue)
  /\ pc' = "loop"
  /\ UNCHANGED <<fromStation, toStation, folded, byKey, configured, responses,
                 run, behaviour, dbUp, now, inputs, tasks, db, result, prev>>
  /\ UNCHANGED <<asked, objects, calls, sideVars>>

\* mergeJourneys or the conversion that follows it throws: generateMergeKey
\* on a candidate, or generateJourneyKey on a merged journey, meets a
\* departure time that is no timestamp
MergeOrConvertThrows(journeys, from, to) ==
  \/ \E i \in 1..Len(journeys) : generateMergeKeyThrows(journeys[i].journey)
  \/ \E i \in 1..Len(mergeJourneys(journeys, from, to)) :
       generateJourneyKeyThrows(
         mergeJourneys(journeys, from, to)[i].departure.scheduledDeparture)

\* The exception leaves searchJourneys: neither call stands inside a try
\* block, the promise searchJourneys returned rejects
SearchRejects ==
  /\ pc = "loop"
  /\ queue = <<>>
  /\ MergeOrConvertThrows(allJourneys, fromStation, toStation)
  /\ pc' = "rejected"
  /\ UNCHANGED <<fromStation, toStation, allJourneys, folded, byKey,
                 configured, responses, run, behaviour, dbUp, queue, fetched,
                 now, inputs, tasks, db, result, prev>>
  /\ UNCHANGED <<asked, objects, calls, sideVars>>

\* After the loop: mergeJourneys, toStoredJourneyInput on every merged
\* journey, and the call of storeJourneys, which starts one storeJourney per
\* input when Supabase is configured.  new Date() is read when a merged
\* journey has no scheduled departure; the clock does not run backwards.
MergeAndConvert ==
  /\ pc = "loop"
  /\ queue = <<>>
  /\ ~MergeOrConvertThrows(allJourneys, fromStation, toStation)
  /\ LET map == MergeFold(allJourneys, Len(allJourneys), fromStation, toStation)
         mergedJourneys == [i \in 1..Len(map) |-> map[i].merged]
         readsClock == \E i \in 1..Len(mergedJourneys) :
                         mergedJourneys[i].departure.scheduledDeparture = NoTime
     IN /\ byKey' = map
        /\ folded' = Len(allJourneys)
        /\ now' \in (IF readsClock THEN {now, now + 1} ELSE {now})
        /\ inputs' = [i \in 1..Len(mergedJourneys) |->
                        toStoredJourneyInput(mergedJourneys[i], fromStation,
                                             toStation, now')]
        /\ tasks' = IF configured
                    THEN [i \in 1..Len(mergedJourneys) |-> NewTask(inputs'[i])]
                    ELSE <<>>
  /\ pc' = "store"
  /\ UNCHANGED <<fromStation, toStation, allJourneys, configured, responses,
                 run, behaviour, dbUp, queue, fetched, db, result, prev>>
  /\ UNCHANGED <<asked, objects, calls, sideVars>>

\* One storeJourney call of the batch runs to its end.  The inputs of one
\* batch carry different journey keys in every search of Scenarios, so the
\* calls work on different rows and their awaits commute: the calls are taken
\* in input order, each as one step.
StoreRun ==
  /\ pc = "store"
  /\ \E i \in 1..Len(tasks) :
       /\ tasks[i].at # "done"
       /\ \A j \in 1..(i - 1) : tasks[j].at = "done"
       /\ LET r == RunTask(tasks[i], db, dbUp)
          IN /\ tasks' = [tasks EXCEPT ![i] = r.task]
             /\ db' = r.db
  /\ UNCHANGED <<fromStation, toStation, pc, allJourneys, folded, byKey,
                 configured, responses, run, behaviour, dbUp, queue, fetched,
                 now, inputs, result, prev>>
  /\ UNCHANGED <<asked, objects, calls, sideVars>>

\* Promise.allSettled has settled: searchJourneys returns
Return ==
  /\ pc = "store"
  /\ \A i \in 1..Len(tasks) : tasks[i].at = "done"
  /\ result' = SearchResult(StoredOf(tasks), inputs)
  /\ pc' = "done"
  /\ UNCHANGED <<fromStation, toStation, allJourneys, folded, byKey,
                 configured, responses, run, behaviour, dbUp, queue, fetched,
                 now, inputs, tasks, db, prev>>
  /\ UNCHANGED <<asked, objects, calls, sideVars>>

\* One client searching a connection, then searching it again
Init ==
  /\ \E s \in Scenarios :
       /\ fromStation = s.from
       /\ toStation = s.to
       /\ responses = s.responses
  /\ configured \in BOOLEAN
  /\ pc = "idle"
  /\ allJourneys = <<>>
  /\ folded = 0
  /\ byKey = <<>>
  /\ run = 0
  /\ behaviour = AllOk
  /\ dbUp = TRUE
  /\ queue = <<>>
  /\ fetched = <<>>
  /\ now = 1000
  /\ inputs = <<>>
  /\ tasks = <<>>
  /\ db = [journeys |-> <<>>, stops |-> {}]
  /\ result = <<>>
  /\ prev = NoSearchYet
  /\ asked = {}
  /\ objects = STATION_REGISTRY
  /\ calls = [c \in 1..MaxCalls |-> NoCall]
  /\ SideIdle

Next ==
  \/ StartSearch
  \/ SkipProvider
  \/ IssueQuery
  \/ QueryThrows
  \/ QueryReturns
  \/ EnrichThrows
  \/ EnrichReturns
  \/ SearchRejects
  \/ MergeAndConvert
  \/ StoreRun
  \/ Return

Spec == Init /\ [][Next]_vars

\* ------------------------------------------------------------------------
\* searchStations, one step per await; the calls overlap freely
\* ------------------------------------------------------------------------
\* A call of searchStations runs up to `await Promise.allSettled(...)`, or
\* returns [] at once for a query shorter than two characters
SearchStationsBegin(c) ==
  /\ calls[c].at = "idle"
  /\ \A b \in 1..(c - 1) : calls[b].at # "idle"
  /\ \E query \in StationQueries :
       calls' = [calls EXCEPT ![c] =
                   IF Len(query) < 2
                   THEN [NoCall EXCEPT !.at = "returned", !.query = query]
                   ELSE [NoCall EXCEPT !.at = "awaiting", !.query = query,
                                       !.results = InitialResults(query)]]
  /\ UNCHANGED <<fromStation, toStation, pc, allJourneys, folded, byKey,
                 configured, responses, run, behaviour, dbUp, queue, fetched,
                 now, inputs, tasks, db, result, prev, objects>>
  /\ UNCHANGED <<asked, sideVars>>

\* The providers' promises have settled: the fold over their stations, the
\* sort, the return
SearchStationsSettle(c) ==
  /\ calls[c].at = "awaiting"
  /\ \E ns \in StationAnswers["NS"], dbAnswer \in StationAnswers["DB"] :
       LET answers == [p \in {"NS", "DB"} |-> IF p = "NS" THEN ns ELSE dbAnswer]
           acc == FoldProviderResults(
                    [objs |-> objects, results |-> calls[c].results],
                    getActiveProviders, answers)
       IN /\ objects' = acc.objs
          /\ calls' = [calls EXCEPT ![c] =
                         [at |-> "returned", query |-> calls[c].query,
                          results |-> SortResults(acc.results, acc.objs,
                                                  Lower(calls[c].query)),
                          answers |-> answers]]
  /\ UNCHANGED <<fromStation, toStation, pc, allJourneys, folded, byKey,
                 configured, responses, run, behaviour, dbUp, queue, fetched,
                 now, inputs, tasks, db, result, prev>>
  /\ UNCHANGED <<asked, sideVars>>

\* MaxCalls callers of searchStations over the one registry
InitStations ==
  /\ fromStation = StationAmsterdam
  /\ toStation = StationFrankfurt
  /\ pc = "idle"
  /\ allJourneys = <<>>
  /\ folded = 0
  /\ byKey = <<>>
  /\ configured = FALSE
  /\ responses = [p \in {"NS", "DB", "SBB"} |-> <<>>]
  /\ run = 0
  /\ behaviour = AllOk
  /\ dbUp = TRUE
  /\ queue = <<>>
  /\ fetched = <<>>
  /\ now = 1000
  /\ inputs = <<>>
  /\ tasks = <<>>
  /\ db = [journeys |-> <<>>, stops |-> {}]
  /\ result = <<>>
  /\ prev = NoSearchYet
  /\ asked = {}
  /\ objects = STATION_REGISTRY
  /\ calls = [c \in 1..MaxCalls |-> NoCall]
  /\ SideIdle

NextStations ==
  \E c \in 1..MaxCalls : SearchStationsBegin(c) \/ SearchStationsSettle(c)

SpecStations == InitStations /\ [][NextStations]_vars

\* ------------------------------------------------------------------------
\* The provider adapters mapping one raw stop
\* ------------------------------------------------------------------------
\* Every variable of searchJourneys and searchStations at rest
QuietSearch ==
  /\ fromStation = StationAmsterdam
  /\ toStation = StationFrankfurt
  /\ pc = "idle"
  /\ allJourneys = <<>>
  /\ folded = 0
  /\ byKey = <<>>
  /\ configured = TRUE
  /\ responses = [p \in {"NS", "DB", "SBB"} |-> <<>>]
  /\ run = 0
  /\ behaviour = AllOk
  /\ dbUp = TRUE
  /\ queue = <<>>
  /\ fetched = <<>>
  /\ now = 1000
  /\ inputs = <<>>
  /\ tasks = <<>>
  /\ db = [journeys |-> <<>>, stops |-> {}]
  /\ result = <<>>
  /\ prev = NoSearchYet
  /\ asked = {}
  /\ objects = STATION_REGISTRY
  /\ calls = [c \in 1..MaxCalls |-> NoCall]

searchAllVars ==
  <<fromStation, toStation, pc, allJourneys, folded, byKey, configured,
    responses, run, behaviour, dbUp, queue, fetched, now, inputs, tasks, db,
    result, prev, asked, objects, calls>>

\* mapStop / mapJourneyStop of the provider the raw stop came from
MapStop ==
  /\ raw # <<>>
  /\ mapped = <<>>
  /\ mapped' = <<MapStopDelays(raw[1])>>
  /\ UNCHANGED <<searchAllVars, raw, storeVars, refreshVars>>

InitAdapters ==
  /\ QuietSearch
  /\ \E rawStop \in RawStops : raw = <<rawStop>>
  /\ mapped = <<>>
  /\ StoreIdle
  /\ RefreshIdle

NextAdapters == MapStop

SpecAdapters == InitAdapters /\ [][NextAdapters]_vars

\* ------------------------------------------------------------------------
\* Searches storing at the same time: storeJourneys, one step per await of
\* every storeJourney call, the calls of all searches interleaved
\* ------------------------------------------------------------------------
\* storageInputs of a search Amsterdam -> Frankfurt that collected the given
\* candidates
StorageInputs(journeys) ==
  LET mergedJourneys == mergeJourneys(journeys, StationAmsterdam, StationFrankfurt)
  IN [i \in 1..Len(mergedJourneys) |->
        toStoredJourneyInput(mergedJourneys[i], StationAmsterdam,
                             StationFrankfurt, 1000)]

\* What the searches have to store: ICE 1 as NS alone gave it, ICE 1 merged
\* from NS and DB (same journey key, the longer stop list), ICE 1 and ICE 2
StoreBatches ==
  {StorageInputs(<<Tagged("NS", NsIce1)>>),
   StorageInputs(<<Tagged("NS", NsIce1), Tagged("DB", DbIce1)>>),
   StorageInputs(<<Tagged("NS", NsIce1), Tagged("NS", NsIce2)>>)}

\* The tables after an earlier search has stored ICE 1 as NS gave it
TablesWithIce1 ==
  RunTask(NewTask(StorageInputs(<<Tagged("NS", NsIce1)>>)[1]),
          [journeys |-> <<>>, stops |-> {}], TRUE).db

\* searchJourneys reaches storeJourneys: one storeJourney call per input
StoreBegin(s) ==
  /\ searches[s].at = "idle"
  /\ \E storageInputs \in StoreBatches :
       searches' = [searches EXCEPT ![s] =
          [at |-> "storing", inputs |-> storageInputs,
           tasks |-> [i \in 1..Len(storageInputs) |-> NewTask(storageInputs[i])],
           result |-> <<>>]]
  /\ UNCHANGED <<searchAllVars, adapterVars, outages, refreshVars>>

\* The tables and the task after one await of a storeJourney call
StoreAwait(s, i, up) ==
  LET r == TaskStep(searches[s].tasks[i], db, up)
  IN /\ searches' = [searches EXCEPT ![s].tasks[i] = r.task]
     /\ db' = r.db
     /\ UNCHANGED <<fromStation, toStation, pc, allJourneys, folded, byKey,
                    configured, responses, run, behaviour, dbUp, queue,
                    fetched, now, inputs, tasks, result, prev, asked, objects,
                    calls, adapterVars, refreshVars>>

\* One await of one storeJourney call resolves, Supabase having answered
StoreStep(s) ==
  /\ searches[s].at = "storing"
  /\ \E i \in 1..Len(searches[s].tasks) :
       /\ searches[s].tasks[i].at # "done"
       /\ StoreAwait(s, i, TRUE)
  /\ UNCHANGED outages

\* One await of one storeJourney call resolves with an error of Supabase
StoreStepFails(s) ==
  /\ searches[s].at = "storing"
  /\ outages < MaxOutages
  /\ \E i \in 1..Len(searches[s].tasks) :
       /\ searches[s].tasks[i].at # "done"
       /\ StoreAwait(s, i, FALSE)
  /\ outages' = outages + 1

\* Promise.allSettled has settled: searchJourneys returns the stored
\* journeys, or the in-memory ones when there is none
StoreReturn(s) ==
  /\ searches[s].at = "storing"
  /\ \A i \in 1..Len(searches[s].tasks) : searches[s].tasks[i].at = "done"
  /\ searches' = [searches EXCEPT
       ![s].at = "returned",
       ![s].result = SearchResult(StoredOf(searches[s].tasks), searches[s].inputs)]
  /\ UNCHANGED <<searchAllVars, adapterVars, outages, refreshVars>>

InitStore ==
  /\ fromStation = StationAmsterdam
  /\ toStation = StationFrankfurt
  /\ pc = "idle"
  /\ allJourneys = <<>>
  /\ folded = 0
  /\ byKey = <<>>
  /\ configured = TRUE
  /\ responses = [p \in {"NS", "DB", "SBB"} |-> <<>>]
  /\ run = 0
  /\ behaviour = AllOk
  /\ dbUp = TRUE
  /\ queue = <<>>
  /\ fetched = <<>>
  /\ now = 1000
  /\ inputs = <<>>
  /\ tasks = <<>>
  /\ db \in {[journeys |-> <<>>, stops |-> {}], TablesWithIce1}
  /\ result = <<>>
  /\ prev = NoSearchYet
  /\ asked = {}
  /\ objects = STATION_REGISTRY
  /\ calls = [c \in 1..MaxCalls |-> NoCall]
  /\ AdaptersIdle
  /\ StoreIdle
  /\ RefreshIdle

NextStore ==
  \E s \in Searchers :
    StoreBegin(s) \/ StoreStep(s) \/ StoreStepFails(s) \/ StoreReturn(s)

SpecStore == InitStore /\ [][NextStore]_vars

\* ------------------------------------------------------------------------
\* Realtime refresh of a stored journey: getJourneyDetails(id, true),
\* refreshJourneyRealtime (internationalApi.ts) and updateJourneyRealtime
\* (journeyStore.ts), one step per provider lookup, with searches of the
\* same train storing again in between two refreshes.  Supabase answers
\* every request.
\* ------------------------------------------------------------------------
\* A stop as an adapter maps it when the provider reports realtime data
Realtime(stop, arrivalDelay, departureDelay, actualPlatform, cancelled) ==
  [stop EXCEPT !.arrivalDelay = arrivalDelay,
               !.departureDelay = departureDelay,
               !.actualPlatform = actualPlatform,
               !.platform = Coalesce(actualPlatform, stop.plannedPlatform),
               !.cancelled = cancelled]

\* NS: ICE 1 leaves 5 minutes late from platform 6 and arrives 7 minutes
\* late; the destination is written in lower case
NsFreshDelayed ==
  Journey("ns-1", TypeICE, Number1,
          Realtime(AmsterdamDep(600, "5"), NoDelay, 5, "6", "false"),
          Realtime(FrankfurtArr(Lower(NameFrankfurt), <<>>, 840, Undef),
                   7, NoDelay, Undef, "false"),
          <<Realtime(AmsterdamDep(600, "5"), NoDelay, 5, "6", "false"),
            Realtime(FrankfurtArr(Lower(NameFrankfurt), <<>>, 840, Undef),
                     7, NoDelay, Undef, "false")>>,
          "delayed")

\* NS: ICE 1 on time, nothing but the cancelled flags reported
NsFreshOnTime ==
  Journey("ns-1", TypeICE, Number1,
          Realtime(AmsterdamDep(600, "5"), NoDelay, NoDelay, Undef, "false"),
          Realtime(FrankfurtArr(NameFrankfurt, <<>>, 840, Undef),
                   NoDelay, NoDelay, Undef, "false"),
          <<Realtime(AmsterdamDep(600, "5"), NoDelay, NoDelay, Undef, "false"),
            Realtime(FrankfurtArr(NameFrankfurt, <<>>, 840, Undef),
                     NoDelay, NoDelay, Undef, "false")>>,
          "scheduled")

\* DB: ICE 1 cancelled from Koeln on; Amsterdam under another name but with
\* the station code, a stop in Basel the stored journey does not have
DbFreshCancelled ==
  Journey("db-1", TypeICE, Number1,
          Realtime(Stop(<<"A">>, CodeASD, "NL", NoTime, 600, Undef, Undef),
                   NoDelay, 2, "9", Undef),
          Realtime(FrankfurtArr(NameFrankfurtTight, <<>>, 842, "7"),
                   12, NoDelay, "8", "true"),
          <<Realtime(Stop(<<"A">>, CodeASD, "NL", NoTime, 600, Undef, Undef),
                     NoDelay, 2, "9", Undef),
            Realtime(KoelnStop, 3, 4, "4", "true"),
            Realtime(BaselStop, 1, 1, "1", "false"),
            Realtime(FrankfurtArr(NameFrankfurtTight, <<>>, 842, "7"),
                     12, NoDelay, "8", "true")>>,
          "cancelled")

\* What provider.getJourneyDetails may resolve to
FreshJourneys(sourceId) ==
  CASE sourceId = "NS" -> {NsFreshDelayed, NsFreshOnTime}
    [] sourceId = "DB" -> {DbFreshCancelled}
    [] OTHER -> {}

\* DB: ICE 1 mapped from a journey without journeyID (`journeyID ?? ""`)
DbIce1NoId == [DbIce1 EXCEPT !.id = ""]

\* The tables after one search has stored the given input
TablesWith(input) ==
  RunTask(NewTask(input), [journeys |-> <<>>, stops |-> {}], TRUE).db

\* What the searches for ICE 1 Amsterdam -> Frankfurt store under its key:
\* the journey as NS alone gave it, merged from NS and DB, and merged from
\* NS and a DB journey that left no raw id
Ice1Inputs ==
  {StorageInputs(<<Tagged("NS", NsIce1)>>)[1],
   StorageInputs(<<Tagged("NS", NsIce1), Tagged("DB", DbIce1)>>)[1],
   StorageInputs(<<Tagged("NS", NsIce1), Tagged("DB", DbIce1NoId)>>)[1]}

\* getJourneyById with Supabase answering: <<>> for null
getJourneyById(tables, id) ==
  LET hits == SelectSeq(tables.journeys, LAMBDA r : r.id = id)
  IN IF hits = <<>> THEN <<>>
     ELSE <<rowToStoredJourney(hits[1], StopsOfJourney(tables.stops, id))>>

\* providerJourneyId of refreshJourneyRealtime, <<>> for undefined; the NS
\* id is `${trainNumber}_${scheduledDeparture}`
ProviderJourneyId(journey, sourceId) ==
  CASE sourceId = "NS" /\ Truthy(journey.nsRawId) ->
         <<[trainNumber |-> journey.trainNumber,
            dateTime |-> journey.scheduledDeparture]>>
    [] sourceId = "DB" /\ Truthy(journey.dbRawId) -> <<journey.dbRawId>>
    [] sourceId = "SBB" /\ Truthy(journey.sbbRawId) -> <<journey.sbbRawId>>
    [] OTHER -> <<>>

\* NSProvider.getJourneyDetails answers null without a request when the id
\* does not split into a train number and a time
NsIdInvalid(sourceId, providerJourneyId) ==
  sourceId = "NS" /\ providerJourneyId.trainNumber = <<>>

\* Mutant of MatchingStop: stops are matched by their exact station name.
MatchingStopByExactName(stops, stop) ==
  FindIndex([i \in 1..Len(stops) |-> stops[i].stationName = stop.station.name])

\* The stored stop journey.stops.find(...) returns for a fresh stop, 0 for
\* none
MatchingStop(stops, stop) ==
  FindIndex([i \in 1..Len(stops) |->
               \/ Lower(stops[i].stationName) = Lower(stop.station.name)
               \/ stops[i].stationId = stop.station.code])

\* The element pushed to updates.stops for a fresh stop matching stored
\* stop k
StopUpdate(stops, k, stop) ==
  [sequence |-> stops[k].sequence,
   arrivalDelayMin |-> stop.arrivalDelay,
   departureDelayMin |-> stop.departureDelay,
   actualPlatform |-> stop.actualPlatform,
   cancelled |-> stop.cancelled]

\* The pushes of `for (const stop of freshJourney.stops)`, freshStops[n..]
RECURSIVE StopUpdates(_, _, _)
StopUpdates(stops, freshStops, n) ==
  IF n > Len(freshStops) THEN <<>>
  ELSE LET k == MatchingStop(stops, freshStops[n])
       IN (IF k = 0 THEN <<>> ELSE <<StopUpdate(stops, k, freshStops[n])>>)
          \o StopUpdates(stops, freshStops, n + 1)

\* `updates` after the loop body has handled one fresh journey
WithFresh(updates, journey, freshJourney) ==
  [status |-> IF freshJourney.status # "scheduled" THEN freshJourney.status
              ELSE updates.status,
   stops |-> updates.stops \o StopUpdates(journey.stops, freshJourney.stops, 1)]

\* Mutant of ApplyStopUpdate: the update is not narrowed to one sequence
\* number.
ApplyStopUpdateToAll(stopRows, id, stopUpdate) ==
  {IF r.journey_id = id
   THEN [r EXCEPT !.arrival_delay_min = stopUpdate.arrivalDelayMin,
                  !.departure_delay_min = stopUpdate.departureDelayMin,
                  !.actual_platform = stopUpdate.actualPlatform,
                  !.cancelled = Coalesce(stopUpdate.cancelled, "false")]
   ELSE r : r \in stopRows}

\* update journey_stops ... eq("journey_id", id).eq("sequence", sequence)
ApplyStopUpdate(stopRows, id, stopUpdate) ==
  {IF r.journey_id = id /\ r.sequence = stopUpdate.sequence
   THEN [r EXCEPT !.arrival_delay_min = stopUpdate.arrivalDelayMin,
                  !.departure_delay_min = stopUpdate.departureDelayMin,
                  !.actual_platform = stopUpdate.actualPlatform,
                  !.cancelled = Coalesce(stopUpdate.cancelled, "false")]
   ELSE r : r \in stopRows}

\* `for (const stopUpdate of updates.stops)`, stopUpdates[n..]
RECURSIVE ApplyStopUpdates(_, _, _, _)
ApplyStopUpdates(stopRows, id, stopUpdates, n) ==
  IF n > Len(stopUpdates) THEN stopRows
  ELSE ApplyStopUpdates(ApplyStopUpdate(stopRows, id, stopUpdates[n]), id,
                        stopUpdates, n + 1)

\* The tables after updateJourneyRealtime(id, updates)
updateJourneyRealtime(tables, id, updates) ==
  [journeys |-> [i \in 1..Len(tables.journeys) |->
                   IF Truthy(updates.status) /\ tables.journeys[i].id = id
                   THEN [tables.journeys[i] EXCEPT !.status = updates.status]
                   ELSE tables.journeys[i]],
   stops |-> ApplyStopUpdates(tables.stops, id, updates.stops, 1)]

\* Every variable of the search but the tables
searchButDb ==
  <<fromStation, toStation, pc, allJourneys, folded, byKey, configured,
    responses, run, behaviour, dbUp, queue, fetched, now, inputs, tasks,
    result, prev, asked, objects, calls>>

RefreshAtRest == refresh.at \in {"idle", "returned", "searched"}

\* getJourneyDetails(id, true) reads the journey; with none it returns null
RefreshBegin ==
  /\ RefreshAtRest
  /\ ops < MaxOps
  /\ ops' = ops + 1
  /\ \E id \in {<<"row", 1>>, <<"row", 2>>} :
       LET journey == getJourneyById(db, id)
       IN refresh' =
            [NoRefresh EXCEPT
               !.at = IF journey = <<>> THEN "returned" ELSE "lookup",
               !.journey = journey,
               !.pending = IF journey = <<>> THEN <<>> ELSE journey[1].sources,
               !.before = db]
  /\ UNCHANGED <<searchAllVars, adapterVars, storeVars>>

\* One turn of `for (const sourceId of journey.sources)` that ends in a
\* `continue` before any request: no provider instance, or no raw id of
\* that provider
RefreshSkip ==
  /\ refresh.at = "lookup"
  /\ refresh.pending # <<>>
  /\ LET sourceId == Head(refresh.pending)
     IN \/ getProvider(sourceId) = Undef
        \/ ProviderJourneyId(refresh.journey[1], sourceId) = <<>>
  /\ refresh' = [refresh EXCEPT !.pending = Tail(@)]
  /\ UNCHANGED <<searchAllVars, adapterVars, storeVars, ops>>

LookingUp ==
  /\ refresh.at = "lookup"
  /\ refresh.pending # <<>>
  /\ getProvider(Head(refresh.pending)) # Undef
  /\ ProviderJourneyId(refresh.journey[1], Head(refresh.pending)) # <<>>

\* provider.getJourneyDetails resolves to null or rejects: `continue`, or
\* the catch that logs
RefreshLookupFails ==
  /\ LookingUp
  /\ refresh' = [refresh EXCEPT !.pending = Tail(@)]
  /\ UNCHANGED <<searchAllVars, adapterVars, storeVars, ops>>

\* provider.getJourneyDetails resolves to a journey: status and stops are
\* collected
RefreshLookup ==
  /\ LookingUp
  /\ LET sourceId == Head(refresh.pending)
         journey == refresh.journey[1]
     IN /\ ~NsIdInvalid(sourceId, ProviderJourneyId(journey, sourceId)[1])
        /\ \E freshJourney \in FreshJourneys(sourceId) :
             refresh' = [refresh EXCEPT
                           !.pending = Tail(@),
                           !.updates = WithFresh(@, journey, freshJourney),
                           !.seen = Append(@, freshJourney)]
  /\ UNCHANGED <<searchAllVars, adapterVars, storeVars, ops>>

\* After the loop: updateJourneyRealtime when there is anything to write,
\* and the journey it reads back; otherwise the journey as it was read
RefreshApply ==
  /\ refresh.at = "lookup"
  /\ refresh.pending = <<>>
  /\ LET journey == refresh.journey[1]
         updates == refresh.updates
         writes == Truthy(updates.status) \/ Len(updates.stops) > 0
         tables == IF writes THEN updateJourneyRealtime(db, journey.id, updates)
                   ELSE db
         updated == IF writes THEN getJourneyById(tables, journey.id) ELSE <<>>
     IN /\ db' = tables
        /\ refresh' = [refresh EXCEPT
                         !.at = "returned",
                         !.result = IF updated # <<>> THEN updated ELSE <<journey>>,
                         !.escalated = @ \/ Truthy(updates.status)]
  /\ UNCHANGED <<searchButDb, adapterVars, storeVars, ops>>

\* A later searchJourneys for the same train reaches storeJourney with its
\* freshly merged input and upserts by journey key
SearchAgain ==
  /\ RefreshAtRest
  /\ ops < MaxOps
  /\ ops' = ops + 1
  /\ \E input \in Ice1Inputs :
       /\ db' = RunTask(NewTask(input), db, TRUE).db
       /\ refresh' = [NoRefresh EXCEPT !.at = "searched",
                                       !.searched = <<input>>,
                                       !.before = db,
                                       !.escalated = refresh.escalated]
  /\ UNCHANGED <<searchButDb, adapterVars, storeVars>>

InitRefresh ==
  /\ fromStation = StationAmsterdam
  /\ toStation = StationFrankfurt
  /\ pc = "idle"
  /\ allJourneys = <<>>
  /\ folded = 0
  /\ byKey = <<>>
  /\ configured = TRUE
  /\ responses = [p \in {"NS", "DB", "SBB"} |-> <<>>]
  /\ run = 0
  /\ behaviour = AllOk
  /\ dbUp = TRUE
  /\ queue = <<>>
  /\ fetched = <<>>
  /\ now = 1000
  /\ inputs = <<>>
  /\ tasks = <<>>
  /\ \E input \in Ice1Inputs : db = TablesWith(input)
  /\ result = <<>>
  /\ prev = NoSearchYet
  /\ asked = {}
  /\ objects = STATION_REGISTRY
  /\ calls = [c \in 1..MaxCalls |-> NoCall]
  /\ SideIdle

NextRefresh ==
  \/ RefreshBegin
  \/ RefreshSkip
  \/ RefreshLookupFails
  \/ RefreshLookup
  \/ RefreshApply
  \/ SearchAgain

SpecRefresh == InitRefresh /\ [][NextRefresh]_vars

\* ========================================================================
\* Properties of the merge pass (checked under SpecMerge)
\* ========================================================================
\* The grouping of a candidate list: the sets of input positions that ended
\* in one match set.
Grouping(journeys) ==
  LET map == MergeFold(journeys, Len(journeys), fromStation, toStation)
  IN {map[i].members : i \in 1..Len(map)}

\* The grouping of the list taken in the order perm, named by the positions
\* of the original list
GroupingUnder(journeys, perm) ==
  LET permuted == [i \in 1..Len(journeys) |-> journeys[perm[i]]]
  IN {{perm[i] : i \in g} : g \in Grouping(permuted)}

\* C2: for every candidate list and every permutation of it, mergeJourneys
\* groups the same candidates together.
C2_OrderIndependentGrouping ==
  MergeDone =>
    \A perm \in Permutations(1..Len(allJourneys)) :
      GroupingUnder(allJourneys, perm) = Grouping(allJourneys)

\* The provider authoritative for the origin country
OriginProvider == getProviderForCountry(fromStation.country)

\* A match set of exactly two candidates, the one at position a from the
\* origin-authoritative provider with a departure platform, the one at
\* position b from another provider without one
AuthorityPair(e, a, b) ==
  /\ e.members = {a, b}
  /\ a # b
  /\ allJourneys[a].source = OriginProvider
  /\ Truthy(allJourneys[a].journey.departure.platform)
  /\ allJourneys[b].source # OriginProvider
  /\ ~Truthy(allJourneys[b].journey.departure.platform)

\* C4: a match set of one candidate of the origin-authoritative provider
\* with a departure platform and one candidate of another provider without
\* one ends with the authoritative provider's departure platform, in either
\* fold order.
C4_FieldAuthority ==
  MergeDone =>
    \A k \in 1..Len(byKey) : \A a, b \in 1..Len(allJourneys) :
      AuthorityPair(byKey[k], a, b) =>
        byKey[k].merged.departure.platform =
          allJourneys[a].journey.departure.platform

\* C4 witness: such a pair in which the candidate without platform was folded
\* first
C4_Witness ==
  /\ MergeDone
  /\ \E k \in 1..Len(byKey) : \E a, b \in 1..Len(allJourneys) :
       AuthorityPair(byKey[k], a, b) /\ b < a

\* C5: within one merge pass a merged journey whose status is not
\* "scheduled" never gets the status "scheduled" again.
C5_MonotonicStatus ==
  [][\A k \in 1..Len(byKey) :
       byKey[k].merged.status # "scheduled" =>
         byKey'[k].merged.status # "scheduled"]_vars

\* C5 witness: a set started by a scheduled candidate, escalated by a delayed
\* one, into which a further scheduled candidate has been folded
C5_Witness ==
  /\ folded = 3
  /\ Len(byKey) = 1
  /\ allJourneys[1].journey.status = "scheduled"
  /\ allJourneys[2].journey.status = "delayed"
  /\ allJourneys[3].journey.status = "scheduled"
  /\ byKey[1].merged.status = "delayed"

\* Two candidates of different providers, same train type and number, same
\* scheduled departure, arrivals at most 2 minutes apart, destination names
\* that differ only in spacing
SameTrainPair(x, y) ==
  /\ x.source # y.source
  /\ x.journey.trainType = y.journey.trainType
  /\ x.journey.trainNumber = y.journey.trainNumber
  /\ x.journey.departure.scheduledDeparture # NoTime
  /\ x.journey.departure.scheduledDeparture = y.journey.departure.scheduledDeparture
  /\ x.journey.arrival.scheduledArrival # NoTime
  /\ y.journey.arrival.scheduledArrival # NoTime
  /\ Abs(x.journey.arrival.scheduledArrival - y.journey.arrival.scheduledArrival) <= 2
  /\ x.journey.arrival.station.name # y.journey.arrival.station.name
  /\ StripWs(x.journey.arrival.station.name) = StripWs(y.journey.arrival.station.name)

\* C8: such a pair, as the whole input of mergeJourneys, is folded into one
\* match set, in either order.
C8_SpacingVariantsMerge ==
  (MergeDone /\ Len(allJourneys) = 2 /\ SameTrainPair(allJourneys[1], allJourneys[2]))
    => Len(byKey) = 1

\* C8 witness: the pair folded with the tightly written name first
C8_Witness ==
  /\ MergeDone
  /\ Len(allJourneys) = 2
  /\ SameTrainPair(allJourneys[1], allJourneys[2])
  /\ allJourneys[1].journey.arrival.station.name = NameFrankfurtTight
  /\ Len(byKey) = 1

\* Two candidates with the same train type and number whose scheduled
\* departures are at most 5 minutes apart
CloseDeparturePair(x, y) ==
  /\ x.journey.trainType = y.journey.trainType
  /\ x.journey.trainNumber = y.journey.trainNumber
  /\ ValidTime(x.journey.departure.scheduledDeparture)
  /\ ValidTime(y.journey.departure.scheduledDeparture)
  /\ Abs(x.journey.departure.scheduledDeparture
         - y.journey.departure.scheduledDeparture) <= 5

\* C14: two such candidates, as the whole input of mergeJourneys, get the
\* same key from generateMergeKey and end in one merged journey.
C14_FiveMinuteTolerance ==
  (MergeDone /\ Len(allJourneys) = 2
     /\ CloseDeparturePair(allJourneys[1], allJourneys[2]))
    => /\ generateMergeKey(allJourneys[1].journey)
           = generateMergeKey(allJourneys[2].journey)
       /\ Len(byKey) = 1

\* The candidates at positions a and b went into one match set
SameSet(a, b) == \E k \in 1..Len(byKey) : {a, b} \subseteq byKey[k].members

\* C15: after a merge pass, any two candidates of the input with the same
\* primary key are in the same match set.
C15_SameKeySameSet ==
  MergeDone =>
    \A a, b \in 1..Len(allJourneys) :
      generateMergeKey(allJourneys[a].journey)
        = generateMergeKey(allJourneys[b].journey)
      => SameSet(a, b)

\* The rule of the secondary match as stated: same train number, scheduled
\* arrivals at most 20 minutes apart, and the candidate's destination name
\* equal to, containing or contained by the set's destination name, or the
\* candidate's destination code being the destination station's id
StatedSecondaryRule(set, journey) ==
  LET candidateName == Trim(Lower(journey.arrival.station.name))
      setName == Trim(Lower(set.arrival.station.name))
  IN /\ set.trainNumber = journey.trainNumber
     /\ ValidTime(set.arrival.scheduledArrival)
     /\ ValidTime(journey.arrival.scheduledArrival)
     /\ Abs(set.arrival.scheduledArrival - journey.arrival.scheduledArrival) <= 20
     /\ \/ candidateName = setName
        \/ Includes(candidateName, setName)
        \/ Includes(setName, candidateName)
        \/ Lower(journey.arrival.station.code) = Trim(Lower(toStation.id))

\* The sets that rule accepts for the candidate folded next
StatedQualifying ==
  {k \in 1..Len(byKey) :
     StatedSecondaryRule(byKey[k].merged, allJourneys[folded + 1].journey)}

\* C16: a candidate that finds no set under its primary key is attached to
\* an existing set exactly when some set satisfies the stated rule, and then
\* to the first such set; otherwise it starts a set of its own.
C16_SecondaryMatchRule ==
  [][(/\ pc = "merge"
      /\ folded < Len(allJourneys)
      /\ \A k \in 1..Len(byKey) :
           byKey[k].key # generateMergeKey(allJourneys[folded + 1].journey))
     => IF StatedQualifying = {}
        THEN Len(byKey') = Len(byKey) + 1
        ELSE /\ Len(byKey') = Len(byKey)
             /\ \E k \in StatedQualifying :
                  /\ \A o \in StatedQualifying : k <= o
                  /\ (folded + 1) \in byKey'[k].members]_vars

\* The Map as it was before the candidate at position pos was folded
MapBefore(pos) == MergeFold(allJourneys, pos - 1, fromStation, toStation)

\* C17: at every point of a merge pass the match sets partition the
\* candidates folded so far: each candidate is in exactly one set, no set is
\* empty, there are no more sets than candidates, and a candidate that
\* matched no set by primary or secondary key opened a set of its own with
\* its own content.
C17_Partition ==
  pc = "merge" =>
    /\ \A pos \in 1..folded :
         Cardinality({k \in 1..Len(byKey) : pos \in byKey[k].members}) = 1
    /\ \A k \in 1..Len(byKey) :
         byKey[k].members # {} /\ byKey[k].members \subseteq 1..folded
    /\ Len(byKey) <= folded
    /\ \A pos \in 1..folded :
         MatchIndex(MapBefore(pos), allJourneys[pos].journey, toStation) = 0 =>
           LET k == Len(MapBefore(pos)) + 1
           IN /\ k <= Len(byKey)
              /\ pos \in byKey[k].members
              /\ \A o \in byKey[k].members : pos <= o
              /\ byKey[k].members = {pos} =>
                   byKey[k].merged =
                     NewMerged(allJourneys[pos].source, allJourneys[pos].journey)

\* C17 witness: three candidates folded into two sets, one of them attached
\* through the arrival lookup, one a singleton opened by the last candidate
C17_Witness ==
  /\ MergeDone
  /\ Len(allJourneys) = 3
  /\ Len(byKey) = 2
  /\ byKey[1].members = {1, 2}
  /\ byKey[1].key # generateMergeKey(allJourneys[2].journey)
  /\ byKey[2].members = {3}

\* The stop list the candidate at position pos came with
StopsOf(pos) == allJourneys[pos].journey.stops

\* The longest stop list among the candidates of a set
MaxStops(members) ==
  CHOOSE n \in {Len(StopsOf(pos)) : pos \in members} :
    \A pos \in members : Len(StopsOf(pos)) <= n

\* The earliest candidate of a set that has the longest stop list
Keeper(members) ==
  CHOOSE pos \in members :
    /\ Len(StopsOf(pos)) = MaxStops(members)
    /\ \A o \in members : Len(StopsOf(o)) = MaxStops(members) => pos <= o

\* The three platform fields of a stop
PlatformFields(stop) ==
  <<stop.platform, stop.plannedPlatform, stop.actualPlatform>>

\* A stop with its platform fields blanked
SansPlatform(stop) ==
  [stop EXCEPT !.platform = Undef, !.plannedPlatform = Undef,
               !.actualPlatform = Undef]

NextTarget == MatchIndex(byKey, allJourneys[folded + 1].journey, toStation)

\* The next candidate's provider is authoritative for the country, its stop
\* has a platform and the stop the set has so far has none
Adopts(country, newStop, oldStop) ==
  /\ getProviderForCountry(country) = allJourneys[folded + 1].source
  /\ Truthy(newStop.platform)
  /\ ~Truthy(oldStop.platform)

PositionsOf(members, provider) ==
  {pos \in members : allJourneys[pos].source = provider}

\* The position of the first candidate of a set that came from a provider
FirstPosition(members, provider) ==
  CHOOSE pos \in PositionsOf(members, provider) :
    \A o \in PositionsOf(members, provider) : pos <= o

\* The raw id a merged journey retains for a provider
RawIdOf(merged, provider) ==
  CASE provider = "NS" -> merged.nsRawId
    [] provider = "DB" -> merged.dbRawId
    [] OTHER -> merged.sbbRawId

\* C20: at every point of a merge pass, the sources of every merged journey
\* have no duplicates, are exactly the providers of the candidates folded
\* into it, stand in the order in which the providers first contributed,
\* and the raw id retained for each of them is the id of one of that
\* provider's candidates in the set.
C20_SourcesAndRawIds ==
  pc = "merge" =>
    \A k \in 1..Len(byKey) :
      LET sources == byKey[k].merged.sources
          members == byKey[k].members
      IN /\ \A i, j \in 1..Len(sources) : sources[i] = sources[j] => i = j
         /\ {sources[i] : i \in 1..Len(sources)}
              = {allJourneys[pos].source : pos \in members}
         /\ \A i, j \in 1..Len(sources) :
              i < j => FirstPosition(members, sources[i])
                         < FirstPosition(members, sources[j])
         /\ \A i \in 1..Len(sources) :
              RawIdOf(byKey[k].merged, sources[i])
                \in {allJourneys[pos].journey.id :
                       pos \in PositionsOf(members, sources[i])}

\* C20 witness: a set of three candidates, the first and the last from the
\* same provider under different ids, the second from another provider
C20_Witness ==
  /\ MergeDone
  /\ Len(byKey) = 1
  /\ byKey[1].members = {1, 2, 3}
  /\ allJourneys[1].source = allJourneys[3].source
  /\ allJourneys[1].source # allJourneys[2].source
  /\ allJourneys[1].journey.id # allJourneys[3].journey.id
  /\ byKey[1].merged.sources = <<allJourneys[1].source, allJourneys[2].source>>
  /\ RawIdOf(byKey[1].merged, allJourneys[1].source) = allJourneys[3].journey.id

\* ========================================================================
\* Properties of the adapters (checked under SpecAdapters)
\* ========================================================================
\* round((actual - scheduled) / 60000) of the raw stop, per delay field; for
\* NS, which sends the difference in seconds, round(seconds / 60)
RawDifference(rawStop) ==
  CASE rawStop.provider = "DB" ->
         [departureDelay |->
            RoundDiv(rawStop.timePredicted - rawStop.timeSchedule, 60000),
          arrivalDelay |->
            RoundDiv(rawStop.timePredicted - rawStop.timeSchedule, 60000)]
    [] rawStop.provider = "SBB" ->
         [departureDelay |->
            RoundDiv(rawStop.prognosisDeparture - rawStop.departure, 60000),
          arrivalDelay |->
            RoundDiv(rawStop.prognosisArrival - rawStop.arrival, 60000)]
    [] OTHER ->
         [departureDelay |-> RoundDiv(rawStop.departureDelayInSeconds, 60),
          arrivalDelay |-> RoundDiv(rawStop.arrivalDelayInSeconds, 60)]

\* C21: every delay of a stop an adapter has mapped is either absent or a
\* strictly positive whole number of minutes, the rounded difference of the
\* raw stop's actual and scheduled time.
C21_DelaysStrictlyPositive ==
  mapped # <<>> =>
    /\ \/ mapped[1].departureDelay = NoDelay
       \/ /\ mapped[1].departureDelay > 0
          /\ mapped[1].departureDelay = RawDifference(raw[1]).departureDelay
    /\ \/ mapped[1].arrivalDelay = NoDelay
       \/ /\ mapped[1].arrivalDelay > 0
          /\ mapped[1].arrivalDelay = RawDifference(raw[1]).arrivalDelay

\* ========================================================================
\* Properties of the store under concurrent searches (checked under SpecStore)
\* ========================================================================
\* The journey keys of the inputs of a search
KeysOf(s) == {searches[s].inputs[i].journeyKey : i \in 1..Len(searches[s].inputs)}

\* The journey keys of the journeys a search returned
ReturnedKeys(s) ==
  {searches[s].result[i].journeyKey : i \in 1..Len(searches[s].result)}

\* How many rows of journeys carry a journey key
RowsWithKey(key) ==
  Cardinality({n \in 1..Len(db.journeys) : db.journeys[n].journey_key = key})

\* C26: when two searches whose inputs share a journey key have both
\* returned and no request to Supabase failed, the table journeys holds
\* exactly one row of that key and each search returned a journey of that
\* key, however their awaits were interleaved.
C26_ConcurrentUpsert ==
  \A a, b \in Searchers :
    (/\ a # b
     /\ searches[a].at = "returned"
     /\ searches[b].at = "returned"
     /\ outages = 0) =>
      \A key \in KeysOf(a) \cap KeysOf(b) :
        /\ RowsWithKey(key) = 1
        /\ key \in ReturnedKeys(a)
        /\ key \in ReturnedKeys(b)

\* The station names of a stop list, in order
StationNames(stops) == [i \in 1..Len(stops) |-> stops[i].stationName]

\* The inputs the searches store and the one an earlier search has stored
UpsertedInputs ==
  UNION {{searches[s].inputs[i] : i \in 1..Len(searches[s].inputs)} :
           s \in Searchers}
  \cup {StorageInputs(<<Tagged("NS", NsIce1)>>)[1]}

\* The complete stop lists under a journey key
CompleteLists(key) ==
  {StationNames(input.stops) :
     input \in {x \in UpsertedInputs : x.journeyKey = key}}

\* The stop list the tables hold for the row of a journey key
StoredNames(key) ==
  LET hits == SelectSeq(db.journeys, LAMBDA r : r.journey_key = key)
  IN StationNames(rowToStoredJourney(hits[1],
                                     StopsOfJourney(db.stops, hits[1].id)).stops)

\* C27: with no request failing, the journey every storeJourney call reads
\* back carries the complete stop list of one of the inputs stored under
\* its key, never an empty or partial one, and once all searches have
\* returned the stop list in the tables is such a complete list.
C27_NoTornStopList ==
  outages = 0 =>
    /\ \A s \in Searchers :
         \A i \in 1..Len(searches[s].tasks) :
           searches[s].tasks[i].result # <<>> =>
             StationNames(searches[s].tasks[i].result[1].stops)
               \in CompleteLists(searches[s].tasks[i].input.journeyKey)
    /\ (\A s \in Searchers : searches[s].at = "returned") =>
         \A s \in Searchers :
           \A key \in KeysOf(s) :
             RowsWithKey(key) = 1 => StoredNames(key) \in CompleteLists(key)

\* C28: a search that has returned gives exactly one journey per input of
\* its batch, stored or in memory, also when some storeJourney calls of the
\* batch succeeded and others failed.
C28_OneJourneyPerMerged ==
  \A s \in Searchers :
    searches[s].at = "returned" =>
      /\ Len(searches[s].result) = Len(searches[s].inputs)
      /\ ReturnedKeys(s) = KeysOf(s)

\* ========================================================================
\* Properties of the realtime refresh (checked under SpecRefresh)
\* ========================================================================
\* A refresh of a stored journey has returned
Refreshed == refresh.at = "returned" /\ refresh.journey # <<>>

\* The stored journey as the tables hold it now
StoredNow == getJourneyById(db, refresh.journey[1].id)[1]

\* The stops of the journeys the lookups of the refresh returned, in the
\* order of the sources and of each journey's stops
RECURSIVE FreshStopsFrom(_)
FreshStopsFrom(n) ==
  IF n > Len(refresh.seen) THEN <<>>
  ELSE refresh.seen[n].stops \o FreshStopsFrom(n + 1)

\* A returned stop matches a stored stop: station name regardless of case,
\* or station id
StopMatches(stored, returned) ==
  \/ Lower(stored.stationName) = Lower(returned.station.name)
  \/ stored.stationId = returned.station.code

\* The returned stops matching a stored stop, in order
HitsOf(stored) ==
  SelectSeq(FreshStopsFrom(1), LAMBDA returned : StopMatches(stored, returned))

SansRealtime(row) ==
  [row EXCEPT !.arrival_delay_min = NoDelay, !.departure_delay_min = NoDelay,
              !.actual_platform = Undef, !.cancelled = "false"]

\* The stop row of the tables under the id of a given row
RowNow(row) == CHOOSE r \in db.stops : r.id = row.id

\* The stored stop a stop row was read into
StoredStopOf(row) ==
  CHOOSE s \in {refresh.journey[1].stops[k] : k \in 1..Len(refresh.journey[1].stops)} :
    s.id = row.id

StoredStatus == db.journeys[1].status

\* C30: once a refresh has written a status other than scheduled, a later
\* search of the same train whose merged status is scheduled leaves a status
\* other than scheduled under the journey key.
C30_SearchKeepsEscalatedStatus ==
  (/\ refresh.at = "searched"
   /\ refresh.escalated
   /\ refresh.before.journeys[1].status # "scheduled"
   /\ refresh.searched[1].status = "scheduled") =>
     StoredStatus # "scheduled"

\* ========================================================================
\* Properties of the search (checked under Spec)
\* ========================================================================
InSeq(seq, x) == \E i \in 1..Len(seq) : seq[i] = x

\* The providers the running search selected and has station ids for
Queried(p) ==
  /\ InSeq(providersToQuery(fromStation, toStation), p)
  /\ HasStationIds(p, fromStation, toStation)

\* The merged journeys of the running search, once mergeJourneys has run
MergedNow == [i \in 1..Len(byKey) |-> byKey[i].merged]

\* What a caller sees of a journey, stored or in memory
Shown(j) ==
  [journeyKey |-> j.journeyKey, trainType |-> j.trainType,
   trainNumber |-> j.trainNumber, status |-> j.status, sources |-> j.sources,
   nsRawId |-> j.nsRawId, dbRawId |-> j.dbRawId, sbbRawId |-> j.sbbRawId,
   scheduledDeparture |-> j.scheduledDeparture,
   scheduledArrival |-> j.scheduledArrival,
   stops |-> [k \in 1..Len(j.stops) |->
                [sequence |-> j.stops[k].sequence,
                 stationName |-> j.stops[k].stationName,
                 plannedPlatform |-> j.stops[k].plannedPlatform,
                 actualPlatform |-> j.stops[k].actualPlatform,
                 source |-> j.stops[k].source]]]

\* The journey keys of the running search
KeysNow == {inputs[i].journeyKey : i \in 1..Len(inputs)}

\* C1: a search that repeats the previous one (same connection, same provider
\* answers, storage working both times) ends with the same journey keys as
\* the previous one, with no row more than before and one row per key.
C1_IdempotentUpsert ==
  (/\ pc = "done"
   /\ prev.run >= 1
   /\ prev.stored
   /\ configured /\ dbUp
   /\ prev.behaviour = behaviour)
  => /\ KeysNow = prev.keys
     /\ Len(db.journeys) = prev.rows
     /\ \A key \in KeysNow :
          Cardinality({i \in 1..Len(db.journeys) :
                         db.journeys[i].journey_key = key}) = 1

\* The journeys provider p contributes when it answers: its response, the
\* first journey spliced with SBB data when the enrichment got an answer
Contribution(p) ==
  IF /\ EnrichmentQueries(p, responses[p], toStation)
     /\ behaviour["SBB"] = "ok"
  THEN Enriched(responses[p], responses["SBB"], toStation)
  ELSE responses[p]

\* Provider a's call throws, provider b's call resolves, both were selected
OneFailed(a, b) ==
  /\ a # b
  /\ Queried(a) /\ Queried(b)
  /\ behaviour[a] = "throws"
  /\ behaviour[b] = "ok"

\* What the search yields from provider b alone
AloneMerged(b) ==
  mergeJourneys(TagAll(b, Contribution(b)), fromStation, toStation)

AloneInputs(b) ==
  [i \in 1..Len(AloneMerged(b)) |->
     toStoredJourneyInput(AloneMerged(b)[i], fromStation, toStation, now)]

\* C3: when the call of one selected provider throws and the other's
\* resolves, the merged journeys and the journeys returned are those of the
\* succeeding provider alone.
C3_ProviderIsolation ==
  \A a, b \in {"NS", "DB"} :
    (pc \in {"store", "done"} /\ OneFailed(a, b)) =>
      /\ MergedNow = AloneMerged(b)
      /\ inputs = AloneInputs(b)
      /\ pc = "done" =>
           [i \in 1..Len(result) |-> Shown(result[i])] =
             [i \in 1..Len(inputs) |-> Shown(AloneInputs(b)[i])]

\* C3 witness: NS threw, DB answered, and the search returned DB's journey
C3_Witness ==
  /\ pc = "done"
  /\ OneFailed("NS", "DB")
  /\ Len(result) = 1
  /\ result[1].sources = <<"DB">>

\* The iteration of the loop for NS is over and NS had answered
NsAnswered ==
  /\ pc \in {"loop", "query", "store", "done"}
  /\ Queried("NS")
  /\ ~InSeq(queue, "NS")
  /\ behaviour["NS"] = "ok"

\* The enrichment block is entered
EnrichmentEntered ==
  Truthy(toStation.providerIds["SBB"]) /\ Len(responses["NS"]) > 0

\* sbbApi answered with a journey that matches in time and destination, the
\* first of which carries no platform data
MatchWithoutPlatform ==
  LET first == responses["NS"][1]
      k == FindIndex([i \in 1..Len(responses["SBB"]) |->
                        SwissMatches(responses["SBB"][i], first, toStation)])
  IN /\ Truthy(SwissQueryFrom(first))
     /\ behaviour["SBB"] = "ok"
     /\ k # 0
     /\ ~HasPlatformData(responses["SBB"][k].arrival)

\* The four ways the enrichment ends without a cross-reference
NoCrossReference ==
  LET first == responses["NS"][1]
  IN \/ swissStopIndex(first) = 0
     \/ ~Truthy(SwissQueryFrom(first))
     \/ /\ Truthy(SwissQueryFrom(first))
        /\ behaviour["SBB"] = "ok"
        /\ \A i \in 1..Len(responses["SBB"]) :
             ~SwissMatches(responses["SBB"][i], first, toStation)
     \/ MatchWithoutPlatform

\* C6: when the enrichment finds no cross-reference (no Swiss stop, no
\* registry station with an SBB id, no SBB journey within 20 minutes at the
\* destination, or a match without platform data), the NS journeys enter the
\* merge exactly as NS returned them.
C6_EnrichmentNoMatchNoChange ==
  (NsAnswered /\ EnrichmentEntered /\ NoCrossReference) =>
    SelectSeq(allJourneys, LAMBDA t : t.source = "NS") =
      TagAll("NS", responses["NS"])

\* C6 witness: sbbApi was asked and its matching journey had no platform
C6_Witness ==
  /\ NsAnswered
  /\ EnrichmentEntered
  /\ MatchWithoutPlatform
  /\ Len(allJourneys) > 0

\* sbbApi was asked and its promise rejected
SwissQueryFailed ==
  /\ Truthy(SwissQueryFrom(responses["NS"][1]))
  /\ behaviour["SBB"] = "throws"

\* The ways the enrichment fails: no Swiss stop or no registry station with
\* an SBB id, sbbApi rejecting, no SBB journey matching
EnrichmentFailed ==
  LET first == responses["NS"][1]
  IN \/ ~Truthy(SwissQueryFrom(first))
     \/ SwissQueryFailed
     \/ /\ Truthy(SwissQueryFrom(first))
        /\ behaviour["SBB"] = "ok"
        /\ \A i \in 1..Len(responses["SBB"]) :
             ~SwissMatches(responses["SBB"][i], first, toStation)

\* The positions of the NS candidates of the running search
NsPositions == {pos \in 1..Len(allJourneys) : allJourneys[pos].source = "NS"}

\* C22: when the enrichment of a search fails, every journey NS returned is
\* pushed as a candidate as it came, is folded into a merged journey, and
\* that merged journey is in the list searchJourneys returns.
C22_EnrichmentFailureSwallowed ==
  (NsAnswered /\ EnrichmentEntered /\ EnrichmentFailed) =>
    /\ SelectSeq(allJourneys, LAMBDA t : t.source = "NS")
         = TagAll("NS", responses["NS"])
    /\ pc \in {"store", "done"} =>
         \A pos \in NsPositions :
           \E k \in 1..Len(byKey) :
             /\ pos \in byKey[k].members
             /\ pc = "done" =>
                  \E r \in 1..Len(result) :
                    result[r].journeyKey = inputs[k].journeyKey

\* C22 witness: a search to Switzerland in which sbbApi rejected has
\* returned journeys with NS as a source
C22_Witness ==
  /\ pc = "done"
  /\ NsAnswered
  /\ EnrichmentEntered
  /\ SwissQueryFailed
  /\ NsPositions # {}
  /\ Len(result) = Len(byKey)
  /\ \E r \in 1..Len(result) : InSeq(result[r].sources, "NS")

\* The provider whose stop list a merged journey holds: the earliest of its
\* candidates with the longest list
ListProvider(k) == allJourneys[Keeper(byKey[k].members)].source

\* C23: every stop of a journey a search has stored carries as source the
\* provider whose data the stop holds: the tag the enrichment put on it, or
\* else the provider of the candidate whose stop list the merge kept; in
\* particular the later provider's when its longer list replaced the list
\* of the first one.
C23_StopSourceIsHolder ==
  (pc = "done" /\ configured /\ dbUp) =>
    \A k \in 1..Len(byKey) :
      \A r \in 1..Len(result) :
        result[r].journeyKey = inputs[k].journeyKey =>
          \A i \in 1..Len(result[r].stops) :
            result[r].stops[i].source
              = Coalesce(byKey[k].merged.stops[i].source, ListProvider(k))

\* The arrival of the first SBB journey that matches an NS journey in time
\* and destination, as a sequence of length 0 or 1
SwissArrivalFor(journey) ==
  LET k == FindIndex([i \in 1..Len(responses["SBB"]) |->
                        SwissMatches(responses["SBB"][i], journey, toStation)])
  IN IF k = 0 THEN <<>> ELSE <<responses["SBB"][k].arrival>>

\* C25: when sbbApi has answered the enrichment of a search, every journey
\* NS returned whose matching SBB journey carries platform data enters the
\* merge with the SBB arrival platform, whatever its place in NS's list.
C25_EnrichmentOfEveryJourney ==
  (/\ NsAnswered
   /\ EnrichmentEntered
   /\ Truthy(SwissQueryFrom(responses["NS"][1]))
   /\ behaviour["SBB"] = "ok") =>
    \A pos \in NsPositions :
      \A i \in 1..Len(responses["NS"]) :
        (/\ allJourneys[pos].journey.id = responses["NS"][i].id
         /\ SwissArrivalFor(responses["NS"][i]) # <<>>
         /\ HasPlatformData(SwissArrivalFor(responses["NS"][i])[1])) =>
          allJourneys[pos].journey.arrival.platform
            = Coalesce(SwissArrivalFor(responses["NS"][i])[1].platform,
                       responses["NS"][i].arrival.platform)

\* NL -> CH, NS returned one train without arrival platform, sbbApi the same
\* train number arriving within tolerance with a platform, nobody failed,
\* and mergeJourneys has run
SwissScenario ==
  /\ pc \in {"store", "done"}
  /\ fromStation.country = "NL"
  /\ toStation.country = "CH"
  /\ behaviour = AllOk
  /\ Len(responses["NS"]) = 1
  /\ Len(responses["SBB"]) = 1
  /\ ~Truthy(responses["NS"][1].arrival.platform)
  /\ Truthy(SwissQueryFrom(responses["NS"][1]))
  /\ responses["SBB"][1].trainNumber = responses["NS"][1].trainNumber
  /\ Truthy(responses["SBB"][1].arrival.platform)
  /\ SwissMatches(responses["SBB"][1], responses["NS"][1], toStation)

\* C7: in that scenario there is one merged journey, with sources [NS, SBB],
\* the SBB arrival platform, and a final stop of source SBB.
C7_SwissSourcesAndPlatform ==
  SwissScenario =>
    /\ Len(byKey) = 1
    /\ byKey[1].merged.sources = <<"NS", "SBB">>
    /\ byKey[1].merged.arrival.platform = responses["SBB"][1].arrival.platform
    /\ inputs[1].stops[Len(inputs[1].stops)].source = "SBB"

\* C9: while the request to one selected provider is in flight, no other
\* selected provider is still waiting for its request to be issued.
C9_ConcurrentQueries ==
  pc \in {"query", "enrich"} =>
    \A i \in 2..Len(queue) : ~HasStationIds(queue[i], fromStation, toStation)

\* Nothing was stored: Supabase is not configured, or every storeJourney
\* call of the batch resolved to null
StorageFailed ==
  \/ ~configured
  \/ \A i \in 1..Len(tasks) : tasks[i].result = <<>>

\* C10: when nothing could be stored, searchJourneys returns one journey per
\* merged journey, in memory, the i-th with id temp-i and the content of the
\* i-th merged journey.
C10_StorageFallback ==
  (pc = "done" /\ StorageFailed) =>
    /\ Len(result) = Len(byKey)
    /\ \A i \in 1..Len(result) :
         /\ result[i].id = <<"temp", i - 1>>
         /\ Shown(result[i]) = Shown(inputs[i])
         /\ result[i].sources = byKey[i].merged.sources
         /\ result[i].status = byKey[i].merged.status

\* C10 witness: Supabase configured but down, two merged journeys returned
C10_Witness ==
  /\ pc = "done"
  /\ configured
  /\ ~dbUp
  /\ Len(tasks) = 2
  /\ StorageFailed
  /\ Len(result) = 2

\* C11: whatever the providers and the store do, a call of searchJourneys
\* never rejects: it ends by returning a list.
C11_NeverRejects == pc # "rejected"

\* The providers authoritative for the countries of the two endpoints
Authoritative ==
  {COUNTRY_PROVIDERS[fromStation.country], COUNTRY_PROVIDERS[toStation.country]}

\* Provider p holds a native id for both endpoints
KnowsBothEndpoints(p) ==
  Truthy(fromStation.providerIds[p]) /\ Truthy(toStation.providerIds[p])

\* C13: once the provider loop of a search is over, the providers whose
\* journey search it called are exactly the providers authoritative for the
\* origin's or the destination's country that hold a native id for both
\* endpoints.
C13_ExactProviderSet ==
  pc \in {"store", "done", "rejected"} =>
    asked = {p \in Authoritative : KnowsBothEndpoints(p)}

\* ========================================================================
\* Properties of the station search (checked under SpecStations)
\* ========================================================================
\* The object of the registry station Bern
BernObject == objects[RegistryIndex(StationBern.id)]

\* C12: no step of any searchStations call, however the calls overlap,
\* removes or replaces a native id that a station object holds, the shared
\* registry objects included: the providerIds of an object only grow.
C12_ProviderIdsOnlyGrow ==
  [][\A i \in 1..Len(objects) : \A p \in ProviderID :
       Truthy(objects[i].providerIds[p]) =>
         /\ i <= Len(objects')
         /\ objects'[i].providerIds[p] = objects[i].providerIds[p]]_vars

\* C12 witness: two overlapping calls found the registry's Bern; the one
\* that settled first gave it the NS id "BERN", the other was then offered
\* "BN" by NS and another DB id by DB, and Bern kept what it had
C12_Witness ==
  /\ calls[1].at = "returned"
  /\ calls[2].at = "returned"
  /\ calls[1].answers["NS"] = Fulfilled(<<NsBern>>)
  /\ calls[1].answers["DB"] = Fulfilled(<<DbBernOther, DbBergen>>)
  /\ calls[2].answers["NS"] = Fulfilled(<<NsBernParen, NsBergen>>)
  /\ InSeq(calls[1].results, RegistryIndex(StationBern.id))
  /\ InSeq(calls[2].results, RegistryIndex(StationBern.id))
  /\ BernObject.providerIds["NS"] = "BERN"
  /\ BernObject.providerIds["DB"] = StationBern.providerIds["DB"]

====
